---- MODULE Spec2Model ----
(***************************************************************************)
(* Model of the report aggregation engine of package.py: the Report        *)
(* container (sections and the deduplicated pool of File snippets), its    *)
(* element classes Report.List, Report.Table and Report.File, and the      *)
(* threshold colour lookup of Badge.                                       *)
(*                                                                         *)
(* Python strings that the code builds by concatenation or formatting are  *)
(* modelled as sequences of one-token strings, so that formatting and      *)
(* concatenation are computed and not assumed injective.  Python dicts are *)
(* modelled as sequences of [key, val] records in insertion order.         *)
(***************************************************************************)
EXTENDS Integers, Sequences, FiniteSets, TLC

VARIABLES
    fobj,       \* the Report.File instances, by object id
    eobj,       \* the Report.List / Report.Table instances, by object id
    _files,     \* Report._files: identifier -> File (insertion ordered dict)
    _sections,  \* Report._sections: section name -> list of List/Table
    added,      \* history: the Identity each File had when passed to Report.add
    mgr,        \* Manager.report / Manager.build: position and what was executed
    htmldir,    \* the names of the files present in Settings.REPORT_FILES_DIR
    ret         \* the last call: operation, receiver, arguments, outcome and
                \* value (what it returned; for mark the colours and for
                \* Table.add the count before the call)

vars == <<fobj, eobj, _files, _sections, added, mgr, htmldir, ret>>

(***************************************************************************)
(* Bounds of the model.                                                    *)
(***************************************************************************)
\* Number of Report.File instances a behaviour creates.
NumFiles == 3
\* Number of lines of the longest source file on disk.
MaxLines == 2
\* Number of Report.List / Report.Table instances a behaviour creates.
NumElems == 2
\* Largest number of entries of a List or Table.
MaxEntries == 5
\* Largest number of columns of a Table, and of values given to Table.add.
MaxColumns == 2

\* Number of List / Table instances the adapters create for one report.
MaxLists == 8
\* Largest number of findings (or of files) in the output of one tool.
MaxFindings == 2

FileIds == 1..NumFiles
ElemIds == 1..NumElems
\* Number of File instances the adapters create for one report.
MaxSnippets == 5
\* Largest number of requirements files SecurityCheck finds.
MaxRequirements == 1

\* The ids of the List / Table and of the File instances of the adapters.
ListIds == 1..MaxLists
SnippetIds == 1..MaxSnippets

(***************************************************************************)
(* Small helpers.                                                          *)
(***************************************************************************)
Max(a, b) == IF a >= b THEN a ELSE b
Min(a, b) == IF a <= b THEN a ELSE b
Range(s) == {s[i] : i \in DOMAIN s}

\* Python's max() and min() of a non-empty collection of integers.
SetMax(S) == CHOOSE x \in S : \A y \in S : y <= x
SetMin(S) == CHOOSE x \in S : \A y \in S : x <= y

\* str(n) for a non-negative integer, one token per decimal digit.
Digit(n) == <<"0", "1", "2", "3", "4", "5", "6", "7", "8", "9">>[n + 1]
RECURSIVE StrNat(_)
StrNat(n) == IF n < 10 THEN <<Digit(n)>> ELSE StrNat(n \div 10) \o <<Digit(n % 10)>>

\* The format specification "08d": sign first, then zeros up to a total
\* width of eight characters; wider numbers are not truncated.
Fmt08(n) ==
    LET sign == IF n < 0 THEN <<"-">> ELSE <<>>
        digits == StrNat(IF n < 0 THEN -n ELSE n)
        pad == Max(0, 8 - Len(sign) - Len(digits))
    IN  sign \o [i \in 1..pad |-> "0"] \o digits

(***************************************************************************)
(* Python dict as a sequence of [key, val] in insertion order.             *)
(***************************************************************************)
DictKeys(d) == {d[i].key : i \in DOMAIN d}
DictHas(d, k) == \E i \in DOMAIN d : d[i].key = k
DictGet(d, k) == d[CHOOSE i \in DOMAIN d : d[i].key = k].val
DictSet(d, k, v) ==
    IF DictHas(d, k)
    THEN [i \in DOMAIN d |-> IF d[i].key = k THEN [key |-> k, val |-> v] ELSE d[i]]
    ELSE Append(d, [key |-> k, val |-> v])

(***************************************************************************)
(* The file system the File constructor reads, and pathlib.               *)
(***************************************************************************)
\* Working directory of the process (Path().cwd()).
Cwd == <<"/", "w">>

\* Path(p).absolute(): an absolute path is kept, a relative one is joined
\* to the working directory.
absolute(p) == IF p # <<>> /\ p[1] = "/" THEN p ELSE Cwd \o <<"/">> \o p

\* Settings.REPORT_LINE_RANGE: the lines shown before and after a finding.
REPORT_LINE_RANGE == 10

\* The source files on disk, by absolute path: "a" has MaxLines lines, "b"
\* has one line, "e" is empty, and "l" is longer than the lines shown around
\* a finding in its first MaxLines lines.
FileA == Cwd \o <<"/", "a">>
FileB == Cwd \o <<"/", "b">>
FileE == Cwd \o <<"/", "e">>
FileL == Cwd \o <<"/", "l">>
Disk(abspath) ==
    IF abspath = FileA THEN [i \in 1..MaxLines |-> "text"]
    ELSE IF abspath = FileB THEN <<"text">>
    ELSE IF abspath = FileL THEN [i \in 1..(MaxLines + REPORT_LINE_RANGE) |-> "text"]
    ELSE <<>>

\* The spellings under which callers open the files.
FilePaths == {<<"a">>, FileA, <<"b">>, <<"e">>}

(***************************************************************************)
(* Report.File                                                             *)
(***************************************************************************)
COLOR_GOOD == "good"
COLOR_BAD == "bad"
COLOR_NEUTRAL == "neutral"
COLOR_NONE == "none"
Colors == {COLOR_GOOD, COLOR_BAD, COLOR_NEUTRAL, COLOR_NONE}

NoObject == [type |-> "absent"]
NoValue == <<>>

\* Report.File.__init__
File_init(filepath) ==
    LET read == Disk(absolute(filepath))
        lines == [i \in DOMAIN read |-> [content |-> read[i], color |-> COLOR_NONE]]
    IN  [type |-> "file",
         summary |-> <<>>,
         filepath |-> filepath,
         outputpath |-> <<>>,
         colorname |-> <<>>,
         lines |-> IF lines = <<>>
                   THEN <<[content |-> "", color |-> COLOR_NONE]>>
                   ELSE lines,
         range |-> <<0, IF lines = <<>> THEN 1 ELSE Len(lines)>>]

\* The range setter clamping the lower bound only.
File_range_lower_only(self, range) ==
    [self EXCEPT !.range = <<Max(0, range[1]), range[2]>>]

\* Report.File.range (setter)
File_range(self, range) ==
    [self EXCEPT !.range = <<Max(0, range[1]), Min(Len(self.lines), range[2])>>]

\* Report.File.set_mark_name: the updated object and the outcome.
File_set_mark_name(self, marking, label) ==
    IF marking \notin {COLOR_GOOD, COLOR_BAD, COLOR_NEUTRAL, COLOR_NONE}
    THEN [obj |-> self, status |-> "ValueError"]
    ELSE [obj |-> [self EXCEPT !.colorname = DictSet(self.colorname, marking, label)],
          status |-> "ok"]

\* The loop of Report.File.mark colouring only lines that have no colour yet.
RECURSIVE File_mark_loop_keep(_, _, _, _)
File_mark_loop_keep(self, inlines, marking, i) ==
    IF i > Len(inlines) THEN [obj |-> self, status |-> "ok"]
    ELSE LET linenumber == inlines[i]
         IN  IF linenumber > Len(self.lines) \/ linenumber < 1
             THEN [obj |-> self, status |-> "ValueError"]
             ELSE File_mark_loop_keep(
                      IF self.lines[linenumber].color = COLOR_NONE
                      THEN [self EXCEPT !.lines[linenumber].color = marking]
                      ELSE self,
                      inlines, marking, i + 1)

\* The loop of Report.File.mark validating every line number before it
\* colours the first line.
File_mark_loop_validate_first(self, inlines, marking, i) ==
    IF \E k \in DOMAIN inlines : inlines[k] > Len(self.lines) \/ inlines[k] < 1
    THEN [obj |-> self, status |-> "ValueError"]
    ELSE [obj |-> [self EXCEPT !.lines =
                    [n \in DOMAIN self.lines |->
                        IF \E k \in DOMAIN inlines : inlines[k] = n
                        THEN [self.lines[n] EXCEPT !.color = marking]
                        ELSE self.lines[n]]],
          status |-> "ok"]

\* The for loop of Report.File.mark from position i of inlines on: the
\* lines before an invalid line number stay marked.
RECURSIVE File_mark_loop(_, _, _, _)
File_mark_loop(self, inlines, marking, i) ==
    IF i > Len(inlines) THEN [obj |-> self, status |-> "ok"]
    ELSE LET linenumber == inlines[i]
         IN  IF linenumber > Len(self.lines) \/ linenumber < 1
             THEN [obj |-> self, status |-> "ValueError"]
             ELSE File_mark_loop([self EXCEPT !.lines[linenumber].color = marking],
                                 inlines, marking, i + 1)

\* The argument lines of Report.File.mark is an int or a list of ints.
PyInt(n) == [int |-> n]
PyList(s) == [list |-> s]
isinstance_int(x) == "int" \in DOMAIN x

\* Report.File.mark
File_mark(self, lines, marking) ==
    LET inlines == IF isinstance_int(lines) THEN <<lines.int>> ELSE lines.list
    IN  IF inlines = <<>> THEN [obj |-> self, status |-> "ok"]
        ELSE IF marking \notin {COLOR_GOOD, COLOR_BAD, COLOR_NEUTRAL, COLOR_NONE}
        THEN [obj |-> self, status |-> "ValueError"]
        ELSE File_mark_loop(self, inlines, marking, 1)

\* Report.File.identifier: the string the code hashes.  hash() of equal
\* strings is equal; distinct strings are taken to hash differently.
RECURSIVE File_identifier_color(_, _)
File_identifier_color(lines, n) ==
    IF n = 0 THEN <<>>
    ELSE File_identifier_color(lines, n - 1) \o Fmt08(n - 1) \o <<lines[n].color>>

\* Report.File.identifier built from the path as the caller spelled it.
File_identifier_as_spelled(self) ==
    LET filepath == self.filepath
        range == IF self.range # <<>>
                 THEN Fmt08(self.range[1]) \o Fmt08(self.range[2])
                 ELSE <<"None">>
        color == File_identifier_color(self.lines, Len(self.lines))
    IN  filepath \o range \o color

File_identifier(self) ==
    LET filepath == absolute(self.filepath)
        range == IF self.range # <<>>
                 THEN Fmt08(self.range[1]) \o Fmt08(self.range[2])
                 ELSE <<"None">>
        color == File_identifier_color(self.lines, Len(self.lines))
    IN  filepath \o range \o color

\* The per-line colour sequence of a File.
Colors_of(self) == [i \in DOMAIN self.lines |-> self.lines[i].color]

\* What the identifier is computed from: the absolute path, the display
\* range and the colour of every line.
Identity(self) == <<absolute(self.filepath), self.range, Colors_of(self)>>

(***************************************************************************)
(* Report.List and Report.Table                                            *)
(***************************************************************************)
\* Report.List.__init__
List_init(name) ==
    [type |-> "list", heading |-> name, columns |-> <<>>, entries |-> <<>>,
     summary |-> <<>>]

\* Report.List.add
List_add(self, summary, details) ==
    [self EXCEPT !.entries = Append(@, [summary |-> summary, details |-> details])]

\* Report.Table.__init__
Table_init(name, columns) ==
    [type |-> "table", heading |-> name, columns |-> columns, entries |-> <<>>,
     summary |-> <<>>]

\* The row Report.Table.add builds, {columns[i]: d}: a column name that
\* occurs twice keeps the value of its last occurrence.
Table_row(columns, columndata) ==
    [c \in Range(columns) |->
        columndata[SetMax({i \in DOMAIN columns : columns[i] = c})]]

\* Report.Table.add refusing only rows with too few values.
Table_add_too_few(self, columndata) ==
    IF Len(columndata) < Len(self.columns)
    THEN [obj |-> self, status |-> "ValueError"]
    ELSE [obj |-> [self EXCEPT !.entries = Append(@, Table_row(self.columns, columndata))],
          status |-> "ok"]

\* Report.Table.add: the updated object and the outcome.
Table_add(self, columndata) ==
    IF Len(columndata) # Len(self.columns)
    THEN [obj |-> self, status |-> "ValueError"]
    ELSE [obj |-> [self EXCEPT !.entries = Append(@, Table_row(self.columns, columndata))],
          status |-> "ok"]

\* Report.List.count and Report.Table.count
count(self) == Len(self.entries)

(***************************************************************************)
(* Report                                                                  *)
(***************************************************************************)
\* Settings.REPORT_FILES_DIR relative to the directory of Settings.REPORT_HTML.
reldir == <<"files">>

\* References to the objects a caller passes to Report.add.
FileRef(f) == [cls |-> "File", id |-> f]
ElemRef(e) == [cls |-> "Elem", id |-> e]

NotAdded == <<"not added">>

\* The output path Report.add gives the snippet stored at position index.
outputpath_of(index) == reldir \o <<"/">> \o StrNat(index) \o <<".html">>

\* The sum of count over the elements of a section (sum([...]) of summary).
RECURSIVE sum_count(_, _)
sum_count(elems, n) ==
    IF n = 0 THEN 0 ELSE sum_count(elems, n - 1) + count(eobj[elems[n]])

\* Report.summary without the test that the section holds one element.
summary_dict_first_element(section) ==
    LET elems == DictGet(_sections, section)
    IN  IF eobj[elems[1]].summary # <<>>
        THEN [name |-> eobj[elems[1]].summary[1],
              value |-> eobj[elems[1]].summary[2],
              unit |-> eobj[elems[1]].summary[3]]
        ELSE [name |-> "Issues",
              value |-> sum_count(elems, Len(elems)),
              unit |-> ""]

\* Report.summary for a section that exists.  A summary is None (<<>>) or a
\* tuple (name, value, unit), the two values the source assigns to it.
summary_dict(section) ==
    LET elems == DictGet(_sections, section)
    IN  IF Len(elems) = 1 /\ eobj[elems[1]].summary # <<>>
        THEN [name |-> eobj[elems[1]].summary[1],
              value |-> eobj[elems[1]].summary[2],
              unit |-> eobj[elems[1]].summary[3]]
        ELSE [name |-> "Issues",
              value |-> sum_count(elems, Len(elems)),
              unit |-> ""]

(***************************************************************************)
(* The calls of an adapter on the report, one after the other.  An adapter *)
(* makes many calls in one report(); each operator below takes the state   *)
(* of the report and of its objects before a call and gives the state      *)
(* after it.  status is "ok", or the exception that ended the adapter;     *)
(* after an exception no further call has an effect.                       *)
(***************************************************************************)
ReportState ==
    [fobj |-> fobj, eobj |-> eobj, _files |-> _files, _sections |-> _sections,
     added |-> added, status |-> "ok"]

raise(rs, exception) == [rs EXCEPT !.status = exception]

\* The id the next File and the next List / Table instance gets; 0 if the
\* model has no instance left.
FreeFile(rs) ==
    LET free == {f \in DOMAIN rs.fobj : rs.fobj[f] = NoObject}
    IN  IF free = {} THEN 0 ELSE SetMin(free)
FreeElem(rs) ==
    LET free == {e \in DOMAIN rs.eobj : rs.eobj[e] = NoObject}
    IN  IF free = {} THEN 0 ELSE SetMin(free)

\* file = report.File(filepath)
rs_File(rs, filepath) ==
    IF rs.status # "ok" THEN rs
    ELSE IF FreeFile(rs) = 0 THEN raise(rs, "exhausted")
    ELSE [rs EXCEPT !.fobj[FreeFile(rs)] = File_init(filepath)]

\* file.mark(lines, marking)
rs_mark(rs, f, lines, marking) ==
    IF rs.status # "ok" THEN rs
    ELSE LET r == File_mark(rs.fobj[f], lines, marking)
         IN  [rs EXCEPT !.fobj[f] = r.obj, !.status = r.status]

\* file.set_mark_name(marking, label)
rs_set_mark_name(rs, f, marking, label) ==
    IF rs.status # "ok" THEN rs
    ELSE LET r == File_set_mark_name(rs.fobj[f], marking, label)
         IN  [rs EXCEPT !.fobj[f] = r.obj, !.status = r.status]

\* file.range = range
rs_range(rs, f, range) ==
    IF rs.status # "ok" THEN rs
    ELSE [rs EXCEPT !.fobj[f] = File_range(rs.fobj[f], range)]

\* entries = Report.List(name)
rs_List(rs, name) ==
    IF rs.status # "ok" THEN rs
    ELSE IF FreeElem(rs) = 0 THEN raise(rs, "exhausted")
    ELSE [rs EXCEPT !.eobj[FreeElem(rs)] = List_init(name)]

\* table = Report.Table(name, columns)
rs_Table(rs, name, columns) ==
    IF rs.status # "ok" THEN rs
    ELSE IF FreeElem(rs) = 0 THEN raise(rs, "exhausted")
    ELSE [rs EXCEPT !.eobj[FreeElem(rs)] = Table_init(name, columns)]

\* entries.add(summary, details)
rs_List_add(rs, e, brief, details) ==
    IF rs.status # "ok" THEN rs
    ELSE [rs EXCEPT !.eobj[e] = List_add(rs.eobj[e], brief, details)]

\* table.add(*columndata)
rs_Table_add(rs, e, columndata) ==
    IF rs.status # "ok" THEN rs
    ELSE LET r == Table_add(rs.eobj[e], columndata)
         IN  [rs EXCEPT !.eobj[e] = r.obj, !.status = r.status]

\* element.summary = tuple
rs_summary(rs, e, tuple) ==
    IF rs.status # "ok" THEN rs
    ELSE [rs EXCEPT !.eobj[e].summary = tuple]

\* report.add(section, data), as Report.add above.
rs_add(rs, section, data) ==
    IF rs.status # "ok" THEN rs
    ELSE IF data.cls = "File"
    THEN LET f == data.id
             index == Len(rs._files)
             ident == File_identifier(rs.fobj[f])
         IN  IF DictHas(rs._files, ident)
             THEN [rs EXCEPT !.fobj[f].outputpath =
                                rs.fobj[DictGet(rs._files, ident)].outputpath,
                             !.added[f] = Identity(rs.fobj[f])]
             ELSE [rs EXCEPT !.fobj[f].outputpath = outputpath_of(index),
                             !._files = DictSet(rs._files, ident, f),
                             !.added[f] = Identity(rs.fobj[f])]
    ELSE IF ~DictHas(rs._sections, section)
    THEN [rs EXCEPT !._sections = DictSet(rs._sections, section, <<data.id>>)]
    ELSE [rs EXCEPT !._sections =
            DictSet(rs._sections, section, Append(DictGet(rs._sections, section), data.id))]

(***************************************************************************)
(* The output file of an external tool, as an adapter finds it: absent,    *)
(* empty, present with content that does not parse, or present with the    *)
(* data the tool writes.                                                   *)
(***************************************************************************)
ToolAbsent == [state |-> "absent"]
ToolEmpty == [state |-> "empty"]
ToolMalformed == [state |-> "malformed"]
ToolData(data) == [state |-> "data", data |-> data]

\* os.path.isfile(path)
isfile(file) == file.state # "absent"
\* file_has_content(path): the file exists and its size is not 0.
file_has_content(file) == file.state \notin {"absent", "empty"}
\* json.load(f) decodes the file: an empty file and a malformed file raise
\* json.JSONDecodeError.
json_decodes(file) == file.state = "data"

\* Path(filename).absolute().relative_to(Path().cwd()): the path below the
\* working directory, <<"ValueError">> for a path that is not below it.
relative_to_cwd(filename) ==
    LET abs == absolute(filename)
        n == Len(Cwd) + 1
    IN  IF Len(abs) > n /\ SubSeq(abs, 1, n) = Cwd \o <<"/">>
        THEN SubSeq(abs, n + 1, Len(abs))
        ELSE <<"ValueError">>

(***************************************************************************)
(* StyleCheck.report.  The data of the flake8 file is a dict from file     *)
(* name to the list of issues of that file, here the sequence of its items *)
(* [filename, issues]; an issue is its line number.                        *)
(***************************************************************************)
\* The loop over the issues of one file, from issue i on.
RECURSIVE StyleCheck_issues(_, _, _, _, _, _)
StyleCheck_issues(rs, e, filename, name, issues, i) ==
    IF i > Len(issues) \/ rs.status # "ok" THEN rs
    ELSE LET line == issues[i]
             f == FreeFile(rs)
             rs1 == rs_File(rs, filename)
             rs2 == rs_mark(rs1, f, PyList(<<line>>), COLOR_BAD)
             rs3 == rs_set_mark_name(rs2, f, COLOR_BAD, "Finding")
             rs4 == rs_range(rs3, f, <<line - REPORT_LINE_RANGE,
                                      line + REPORT_LINE_RANGE>>)
             rs5 == rs_add(rs4, filename, FileRef(f))
             details == [line |-> line, name |-> name,
                         href |-> [path |-> rs5.fobj[f].outputpath, anchor |-> line]]
             rs6 == rs_List_add(rs5, e, "text", details)
         IN  StyleCheck_issues(rs6, e, filename, name, issues, i + 1)

\* The loop over the items of the data, from item k on.
RECURSIVE StyleCheck_files(_, _, _)
StyleCheck_files(rs, data, k) ==
    IF k > Len(data) \/ rs.status # "ok" THEN rs
    ELSE LET filename == data[k].filename
             name == relative_to_cwd(filename)
             e == FreeElem(rs)
             rs1 == rs_List(rs, name)
             rs2 == StyleCheck_issues(rs1, e, filename, name, data[k].issues, 1)
             rs3 == rs_add(rs2, "Style", ElemRef(e))
         IN  IF name = <<"ValueError">> THEN raise(rs, "ValueError")
             ELSE StyleCheck_files(rs3, data, k + 1)

\* StyleCheck.report
StyleCheck_report(rs, flakefile) ==
    LET e == FreeElem(rs)
    IN  IF ~file_has_content(flakefile)
        THEN rs_add(rs_List(rs, <<>>), "Style", ElemRef(e))
        ELSE IF ~json_decodes(flakefile)
        THEN LET rs1 == rs_List(rs, <<>>)
                 rs2 == rs_List_add(rs1, e, "Could not decode flake8 json file.", "")
                 rs3 == rs_add(rs2, "Style", ElemRef(e))
             IN  StyleCheck_files(rs3, <<>>, 1)
        ELSE StyleCheck_files(rs, flakefile.data, 1)

(***************************************************************************)
(* TypeCheck.report.  The data of the mypy file is the sequence of the     *)
(* messages the regular expression finds in its failure node, each a       *)
(* [filename, line]; a file without failure node has no message.           *)
(***************************************************************************)
\* The loop over the messages, from message i on.  found is the dict from
\* file name to the List (sections), the File (files) and the line numbers
\* (lines) of that file.
RECURSIVE TypeCheck_messages(_, _, _, _)
TypeCheck_messages(rs, found, messages, i) ==
    IF i > Len(messages) \/ rs.status # "ok" THEN [rs |-> rs, found |-> found]
    ELSE LET filename == relative_to_cwd(messages[i].filename)
             line == messages[i].line
             isnew == ~DictHas(found, filename)
             f == IF isnew THEN FreeFile(rs) ELSE DictGet(found, filename).file
             rs1 == IF isnew THEN rs_File(rs, filename) ELSE rs
             rs2 == IF isnew THEN rs_add(rs1, absolute(filename), FileRef(f)) ELSE rs1
             e == IF isnew THEN FreeElem(rs2) ELSE DictGet(found, filename).section
             rs3 == IF isnew THEN rs_List(rs2, filename) ELSE rs2
             lines == IF isnew THEN <<>> ELSE DictGet(found, filename).lines
             rs4 == rs_mark(rs3, f, PyInt(line), COLOR_BAD)
             rs5 == rs_set_mark_name(rs4, f, COLOR_BAD, "Finding")
             details == [line |-> line, name |-> filename,
                         href |-> [path |-> rs5.fobj[f].outputpath, anchor |-> line]]
             rs6 == rs_List_add(rs5, e, "msg", details)
             found6 == DictSet(found, filename,
                               [section |-> e, file |-> f, lines |-> Append(lines, line)])
         IN  IF filename = <<"ValueError">>
             THEN [rs |-> raise(rs, "ValueError"), found |-> found]
             ELSE TypeCheck_messages(rs6, IF rs6.status = "ok" THEN found6 ELSE found,
                                     messages, i + 1)

\* The loop over the Lists of the files, from item k on.
RECURSIVE TypeCheck_sections(_, _, _)
TypeCheck_sections(rs, found, k) ==
    IF k > Len(found) \/ rs.status # "ok" THEN rs
    ELSE LET item == found[k].val
             rs1 == rs_range(rs, item.file,
                             <<SetMin(Range(item.lines)) - REPORT_LINE_RANGE,
                               SetMax(Range(item.lines)) + REPORT_LINE_RANGE>>)
             rs2 == rs_add(rs1, "Types", ElemRef(item.section))
         IN  TypeCheck_sections(rs2, found, k + 1)

\* TypeCheck.report: et.parse raises for a file that is absent
\* (FileNotFoundError) and for one that is no XML document (ParseError).
TypeCheck_report(rs, xmlfile) ==
    IF ~isfile(xmlfile) THEN raise(rs, "FileNotFoundError")
    ELSE IF xmlfile.state # "data" THEN raise(rs, "ParseError")
    ELSE LET r == TypeCheck_messages(rs, <<>>, xmlfile.data, 1)
             rs1 == TypeCheck_sections(r.rs, r.found, 1)
             e == FreeElem(rs1)
         IN  IF r.found = <<>>
             THEN rs_add(rs_List(rs1, <<>>), "Types", ElemRef(e))
             ELSE rs1

(***************************************************************************)
(* SecurityCheck.report.  safetyfiles is the dict safetyfilenames as the   *)
(* sequence of its items [name, file]; the data of a safety file is        *)
(* [haskey, vulnerabilities]: whether it has the key "vulnerabilities" and *)
(* how many entries that list has.  The data of the bandit file is the     *)
(* sequence of its results, each a [filename, line_range].                 *)
(***************************************************************************)
\* entries.add(summary, details) for each of n vulnerabilities.
RECURSIVE SecurityCheck_vulnerabilities(_, _, _)
SecurityCheck_vulnerabilities(rs, e, n) ==
    IF n = 0 THEN rs
    ELSE rs_List_add(SecurityCheck_vulnerabilities(rs, e, n - 1), e,
                     "package_name vulnerable_spec", "advisory")

\* The loop over the safety files, from item k on.  A file that does not
\* decode is passed over; a missing key "vulnerabilities" is a KeyError.
RECURSIVE SecurityCheck_dependencies(_, _, _)
SecurityCheck_dependencies(rs, safetyfiles, k) ==
    IF k > Len(safetyfiles) \/ rs.status # "ok" THEN rs
    ELSE LET name == safetyfiles[k].name
             file == safetyfiles[k].file
             e == FreeElem(rs)
             rs1 == rs_List(rs, name)
             failed == rs_add(rs_List_add(rs1, e, "Analysis failed.", ""),
                              "Dependencies", ElemRef(e))
             listed == rs_add(SecurityCheck_vulnerabilities(rs1, e,
                                  file.data.vulnerabilities),
                              "Dependencies", ElemRef(e))
             rs2 == IF ~isfile(file) THEN failed
                    ELSE IF ~json_decodes(file) THEN rs1
                    ELSE IF ~file.data.haskey THEN raise(rs1, "KeyError")
                    ELSE listed
         IN  SecurityCheck_dependencies(rs2, safetyfiles, k + 1)

\* The loop over the results of bandit, from result i on.  min() of an
\* empty line_range raises ValueError.
RECURSIVE SecurityCheck_results(_, _, _, _)
SecurityCheck_results(rs, e, results, i) ==
    IF i > Len(results) \/ rs.status # "ok" THEN rs
    ELSE LET filename == results[i].filename
             relfilename == relative_to_cwd(filename)
             lines == results[i].line_range
             minline == SetMin(Range(lines))
             maxline == SetMax(Range(lines))
             f == FreeFile(rs)
             rs1 == rs_File(rs, relfilename)
             rs2 == rs_mark(rs1, f, PyList(lines), COLOR_BAD)
             rs3 == rs_set_mark_name(rs2, f, COLOR_BAD, "Finding")
             rs4 == rs_range(rs3, f, <<minline - REPORT_LINE_RANGE,
                                      maxline + REPORT_LINE_RANGE>>)
             rs5 == rs_add(rs4, filename, FileRef(f))
             details == [line |-> lines, name |-> relfilename,
                         href |-> [path |-> rs5.fobj[f].outputpath, anchor |-> minline]]
             rs6 == rs_List_add(rs5, e, "test_name: issue_text", details)
         IN  IF relfilename = <<"ValueError">> \/ lines = <<>>
             THEN raise(rs, "ValueError")
             ELSE SecurityCheck_results(rs6, e, results, i + 1)

\* SecurityCheck.report: the dependency report, then the security report.
\* json.load of the bandit file is not guarded: a file that does not decode
\* raises JSONDecodeError.
SecurityCheck_report(rs, safetyfiles, banditfile) ==
    LET rs1 == SecurityCheck_dependencies(rs, safetyfiles, 1)
        e == FreeElem(rs1)
        rs2 == rs_List(rs1, <<>>)
    IN  IF ~isfile(banditfile)
        THEN rs_add(rs_List_add(rs2, e, "Analysis failed.", ""), "Security", ElemRef(e))
        ELSE IF ~json_decodes(banditfile)
        THEN raise(rs1, "JSONDecodeError")
        ELSE rs_add(SecurityCheck_results(rs2, e, banditfile.data, 1),
                    "Security", ElemRef(e))

(***************************************************************************)
(* Test.report.  The data of the coverage file is [files, totals]: the     *)
(* items [filename, executed, missing, excluded] of its dict "files" and   *)
(* the floor of the total coverage in percent.                             *)
(***************************************************************************)
TEST_COLUMNS == <<"Module", "Statements", "Missing", "Excluded", "Coverage">>

\* The loop over the files of the coverage data, from item k on.
RECURSIVE Test_files(_, _, _, _)
Test_files(rs, table, data, k) ==
    IF k > Len(data.files) \/ rs.status # "ok" THEN rs
    ELSE LET content == data.files[k]
             filename == content.filename
             f == FreeFile(rs)
             rs1 == rs_File(rs, filename)
             rs2 == rs_mark(rs1, f, PyList(content.executed), COLOR_GOOD)
             rs3 == rs_mark(rs2, f, PyList(content.missing), COLOR_BAD)
             rs4 == rs_mark(rs3, f, PyList(content.excluded), COLOR_NEUTRAL)
             rs5 == rs_set_mark_name(rs4, f, COLOR_GOOD, "Run")
             rs6 == rs_set_mark_name(rs5, f, COLOR_BAD, "Missing")
             rs7 == rs_set_mark_name(rs6, f, COLOR_NEUTRAL, "Excluded")
             rs8 == rs_add(rs7, filename, FileRef(f))
             row == <<[href |-> [path |-> rs8.fobj[f].outputpath], name |-> filename],
                      "num_statements", "missing_lines", "excluded_lines",
                      "percent_covered">>
             rs9 == rs_Table_add(rs8, table, row)
             rs10 == rs_summary(rs9, table, <<"Coverage", data.totals, "%">>)
         IN  Test_files(rs10, table, data, k + 1)

\* Test.report: json.load is not guarded.
Test_report(rs, coveragefile) ==
    LET e == FreeElem(rs)
    IN  IF ~file_has_content(coveragefile)
        THEN rs_add(rs_List_add(rs_List(rs, <<>>), e, "Coverage analysis failed", ""),
                    "Test", ElemRef(e))
        ELSE IF ~json_decodes(coveragefile)
        THEN raise(rs, "JSONDecodeError")
        ELSE rs_add(Test_files(rs_Table(rs, <<>>, TEST_COLUMNS), e,
                               coveragefile.data, 1),
                    "Test", ElemRef(e))

(***************************************************************************)
(* SupportedVersions.report.  The data of the nox file is the number of    *)
(* its sessions.                                                           *)
(***************************************************************************)
\* entries.add(...) for each of n sessions.
RECURSIVE SupportedVersions_sessions(_, _, _)
SupportedVersions_sessions(rs, e, n) ==
    IF n = 0 THEN rs
    ELSE rs_List_add(SupportedVersions_sessions(rs, e, n - 1), e,
                     "name: result", "description")

\* SupportedVersions.report: json.load is not guarded.
SupportedVersions_report(rs, noxfile) ==
    LET e == FreeElem(rs)
        rs1 == rs_List(rs, <<>>)
    IN  IF ~file_has_content(noxfile)
        THEN rs_add(rs_List_add(rs1, e, "Failed to test other dependency versions.", ""),
                    "Versions", ElemRef(e))
        ELSE IF ~json_decodes(noxfile)
        THEN raise(rs, "JSONDecodeError")
        ELSE LET rs2 == SupportedVersions_sessions(rs1, e, noxfile.data)
                 rs3 == rs_summary(rs2, e,
                            <<"Tested Dependency Combinations", noxfile.data, "">>)
             IN  rs_add(rs3, "Versions", ElemRef(e))

(***************************************************************************)
(* DocInspector.  The inspector holds [documented, log]: the number of     *)
(* documented elements (the sum over its dict documented) and the list of  *)
(* the issues, each a [filename, lines].                                   *)
(***************************************************************************)
\* DocInspector.__init__
DocInspector_init == [documented |-> 0, log |-> <<>>]

\* DocInspector.load: the inspector after the call, and the outcome.
DocInspector_load(self, covfile) ==
    IF ~isfile(covfile) THEN [obj |-> self, status |-> "Exception"]
    ELSE IF ~json_decodes(covfile) THEN [obj |-> self, status |-> "JSONDecodeError"]
    ELSE [obj |-> covfile.data, status |-> "ok"]

\* DocInspector.get_coverage(): math.floor(numdoc / (numdoc + numundoc) * 100),
\* -1 for the ZeroDivisionError of numdoc + numundoc = 0.
get_coverage(self) ==
    LET numdoc == self.documented
        numundoc == Len(self.log)
    IN  IF numdoc + numundoc = 0 THEN -1
        ELSE (numdoc * 100) \div (numdoc + numundoc)

\* The loop over the log, from entry i on.
RECURSIVE DocInspector_entries(_, _, _, _)
DocInspector_entries(rs, e, log, i) ==
    IF i > Len(log) \/ rs.status # "ok" THEN rs
    ELSE LET filename == log[i].filename
             relfilename == relative_to_cwd(filename)
             minline == SetMin(Range(log[i].lines))
             maxline == SetMax(Range(log[i].lines))
             f == FreeFile(rs)
             rs1 == rs_File(rs, filename)
             rs2 == rs_mark(rs1, f, PyInt(minline), COLOR_BAD)
             rs3 == rs_set_mark_name(rs2, f, COLOR_BAD, "Finding")
             rs4 == rs_range(rs3, f, <<minline - REPORT_LINE_RANGE,
                                      maxline + REPORT_LINE_RANGE>>)
             rs5 == rs_add(rs4, relfilename, FileRef(f))
             details == [line |-> minline, name |-> relfilename,
                         href |-> [path |-> rs5.fobj[f].outputpath, anchor |-> minline]]
             rs6 == rs_List_add(rs5, e, "issue: objname", details)
         IN  IF relfilename = <<"ValueError">> THEN raise(rs, "ValueError")
             ELSE DocInspector_entries(rs6, e, log, i + 1)

\* DocInspector.report
DocInspector_report(rs, self) ==
    LET e == FreeElem(rs)
        rs1 == DocInspector_entries(rs_List(rs, <<>>), e, self.log, 1)
        rs2 == IF rs1.status = "ok" /\ get_coverage(self) < 0
               THEN raise(rs1, "ZeroDivisionError")
               ELSE rs_summary(rs1, e, <<"Coverage", get_coverage(self), "%">>)
    IN  rs_add(rs2, "Documentation", ElemRef(e))

\* The threshold tables of Settings.
TEST_COVERAGE_THRESHOLDS ==
    (99 :> "brightgreen") @@ (98 :> "green") @@ (96 :> "yellowgreen")
        @@ (94 :> "yellow") @@ (90 :> "orange")
DOCUMENTATION_COVERAGE_THRESHOLDS ==
    (99 :> "brightgreen") @@ (98 :> "green") @@ (96 :> "yellowgreen")
        @@ (94 :> "yellow") @@ (90 :> "orange")
SECURITY_ISSUES_THRESHOLDS == (0 :> "brightgreen")

(***************************************************************************)
(* Badge                                                                   *)
(***************************************************************************)
\* The GTE lookup with a strict comparison.
_getThresholdColorGTE_strict(thresholddict, value) ==
    LET applicable == {k \in DOMAIN thresholddict : value > k}
    IN  IF applicable # {} THEN thresholddict[SetMax(applicable)] ELSE "red"

\* Badge._getThresholdColorGTE; thresholddict is a function from its keys.
_getThresholdColorGTE(thresholddict, value) ==
    LET applicable == {k \in DOMAIN thresholddict : value >= k}
    IN  IF applicable # {} THEN thresholddict[SetMax(applicable)] ELSE "red"

\* The LTE lookup taking the highest matching threshold.
_getThresholdColorLTE_highest(thresholddict, value) ==
    LET applicable == {k \in DOMAIN thresholddict : value <= k}
    IN  IF applicable # {} THEN thresholddict[SetMax(applicable)] ELSE "red"

\* Badge._getThresholdColorLTE
_getThresholdColorLTE(thresholddict, value) ==
    LET applicable == {k \in DOMAIN thresholddict : value <= k}
    IN  IF applicable # {} THEN thresholddict[SetMin(applicable)] ELSE "red"

\* str(value) of an int: a minus sign for a negative number, then its digits.
str_int(n) == IF n < 0 THEN <<"-">> \o StrNat(-n) ELSE StrNat(n)

\* Badge.get_coverage_badge_data for a whole number of percent, of which
\* math.floor is the number itself.
get_coverage_badge_data(title, value, thresholds) ==
    <<title, str_int(value) \o <<"%">>, _getThresholdColorGTE(thresholds, value)>>

\* An Optional[int] argument: None, or an int tagged by PyInt.
PyNone == [none |-> TRUE]

\* str(value) of an Optional[int].
str_optional(value) ==
    IF isinstance_int(value) THEN str_int(value.int) ELSE <<"None">>

\* get_issue_badge_data without the branch that handles an absent value.
get_issue_badge_data_no_else(title, value, thresholds) ==
    LET nissues == str_optional(value)
        color == IF value # PyNone
                 THEN _getThresholdColorLTE(thresholds, value.int)
                 ELSE "red"
    IN  <<title, nissues, color>>

\* Badge.get_issue_badge_data: the tuple (title, message, colour).
get_issue_badge_data(title, value, thresholds) ==
    LET nissues == IF value # PyNone THEN str_optional(value) ELSE <<"Unknown">>
        color == IF value # PyNone
                 THEN _getThresholdColorLTE(thresholds, value.int)
                 ELSE "red"
    IN  <<title, nissues, color>>

(***************************************************************************)
(* Initial state: a new Report, no File, List or Table created yet.        *)
(***************************************************************************)
Call(op, self, args, status, value) ==
    [op |-> op, self |-> self, args |-> args, status |-> status, value |-> value]

(***************************************************************************)
(* Manager.  mgr holds the command the process runs and its position in    *)
(* it (pc, step), the output files the tools wrote (out), the results of   *)
(* the run() calls (passed), the adapters whose run() and whose report()   *)
(* were executed, the inspector of the documentation coverage, whether     *)
(* render() and Build.run() were executed, the exception that ended the    *)
(* command, and what report() returned.                                    *)
(***************************************************************************)
\* The adapters in the order Manager.report calls run() and report().
RunOrder == <<"security", "style", "type", "test", "supported", "doc">>
ReportOrder == <<"supported", "test", "docinspector", "security", "style", "type">>

\* The classes with run() and ispassed() the Manager creates.
Adapters == {"security", "style", "type", "test", "supported", "doc", "build"}

\* not bool(pyexecute(...)): the tool ended with the exit code 0.
succeeded(code) == code = 0

\* The tools run() of an adapter executes, in the order of their execution;
\* SecurityCheck runs bandit, then safety on the active environment, on the
\* config file and on each of the n requirements files found.
tools(adapter, n) ==
    CASE adapter = "security" ->
            <<"bandit", "safety", "safety">> \o [i \in 1..n |-> "safety"]
      [] adapter = "style" -> <<"isort", "black", "flake8">>
      [] adapter = "type" -> <<"mypy">>
      [] adapter = "test" -> <<"coverage run", "coverage json">>
      [] adapter = "supported" -> <<"nox">>
      [] adapter = "doc" -> <<"sphinx.ext.apidoc", "sphinx">>
      [] adapter = "build" -> <<"build">>

\* self._passed after run(), codes being the exit codes of the tools run.
\* SecurityCheck sets it in _safety to all(result) of the safety runs.
run_passed(adapter, codes) ==
    CASE adapter = "security" -> \A i \in 2..Len(codes) : succeeded(codes[i])
      [] adapter = "style" -> succeeded(codes[3])
      [] adapter = "type" -> succeeded(codes[1])
      [] adapter = "test" -> succeeded(codes[1])
      [] adapter = "supported" -> succeeded(codes[1])
      [] adapter = "doc" -> succeeded(codes[1]) /\ succeeded(codes[2])
      [] adapter = "build" -> succeeded(codes[1])

\* What run() returns: self._passed, but bresult and sresult in SecurityCheck.
run_returns(adapter, codes) ==
    IF adapter = "security"
    THEN succeeded(codes[1]) /\ run_passed(adapter, codes)
    ELSE run_passed(adapter, codes)

\* The string of a bool.
str_bool(b) == IF b THEN "True" ELSE "False"

\* The output files before any tool ran.
NoOutput ==
    [security |-> [safetyfiles |-> <<>>, banditfile |-> ToolAbsent],
     style |-> ToolAbsent, type |-> ToolAbsent, test |-> ToolAbsent,
     supported |-> ToolAbsent, doc |-> ToolAbsent]

\* Manager.__init__: the adapters are created, no command runs yet.
Manager_init ==
    [pc |-> "idle", cmd |-> "", step |-> 0, out |-> NoOutput, passed |-> <<>>,
     keep |-> FALSE, ran |-> <<>>, reported |-> <<>>, doc |-> DocInspector_init,
     rendered |-> FALSE, built |-> FALSE, exception |-> "", returned |-> "none",
     _passed |-> [a \in Adapters |-> FALSE], lastrun |-> [a \in Adapters |-> "none"]]

\* all([...]) of the results of run(), as the string of the bool.
all_passed(passed) ==
    IF \A i \in DOMAIN passed : passed[i] THEN "True" ELSE "False"

Init ==
    /\ fobj = [f \in FileIds \cup SnippetIds |-> NoObject]
    /\ eobj = [e \in ElemIds \cup ListIds |-> NoObject]
    /\ _files = <<>>
    /\ _sections = <<>>
    /\ added = [f \in FileIds \cup SnippetIds |-> NotAdded]
    /\ mgr = Manager_init
    /\ htmldir = {}
    /\ ret = Call("Report", 0, <<>>, "ok", NoValue)

(***************************************************************************)
(* Actions on Report.File                                                  *)
(***************************************************************************)
\* file = Report.File(filepath); instances are numbered as they are created.
NewFile(f, filepath) ==
    /\ fobj[f] = NoObject
    /\ \A g \in FileIds : g < f => fobj[g] # NoObject
    /\ fobj' = [fobj EXCEPT ![f] = File_init(filepath)]
    /\ ret' = Call("File", f, filepath, "ok", NoValue)
    /\ UNCHANGED <<eobj, _files, _sections, added>>
    /\ UNCHANGED <<mgr, htmldir>>

\* file.range = range
SetRange(f, range) ==
    /\ fobj[f] # NoObject
    /\ fobj' = [fobj EXCEPT ![f] = File_range(fobj[f], range)]
    /\ ret' = Call("range", f, range, "ok", NoValue)
    /\ UNCHANGED <<eobj, _files, _sections, added>>
    /\ UNCHANGED <<mgr, htmldir>>

\* file.mark(lines, marking)
Mark(f, lines, marking) ==
    /\ fobj[f] # NoObject
    /\ LET r == File_mark(fobj[f], lines, marking)
       IN  /\ fobj' = [fobj EXCEPT ![f] = r.obj]
           /\ ret' = Call("mark", f, [lines |-> lines, marking |-> marking],
                          r.status, Colors_of(fobj[f]))
    /\ UNCHANGED <<eobj, _files, _sections, added>>
    /\ UNCHANGED <<mgr, htmldir>>

\* file.set_mark_name(marking, label)
SetMarkName(f, marking, label) ==
    /\ fobj[f] # NoObject
    /\ LET r == File_set_mark_name(fobj[f], marking, label)
       IN  /\ fobj' = [fobj EXCEPT ![f] = r.obj]
           /\ ret' = Call("set_mark_name", f, [marking |-> marking, label |-> label],
                          r.status, NoValue)
    /\ UNCHANGED <<eobj, _files, _sections, added>>
    /\ UNCHANGED <<mgr, htmldir>>

(***************************************************************************)
(* Actions on Report.List and Report.Table                                 *)
(***************************************************************************)
\* List = Report.List(name)
NewList(e, name) ==
    /\ eobj[e] = NoObject
    /\ \A g \in ElemIds : g < e => eobj[g] # NoObject
    /\ eobj' = [eobj EXCEPT ![e] = List_init(name)]
    /\ ret' = Call("List", e, name, "ok", NoValue)
    /\ UNCHANGED <<fobj, _files, _sections, added>>
    /\ UNCHANGED <<mgr, htmldir>>

\* table = Report.Table(name, columns)
NewTable(e, name, columns) ==
    /\ eobj[e] = NoObject
    /\ \A g \in ElemIds : g < e => eobj[g] # NoObject
    /\ eobj' = [eobj EXCEPT ![e] = Table_init(name, columns)]
    /\ ret' = Call("Table", e, columns, "ok", NoValue)
    /\ UNCHANGED <<fobj, _files, _sections, added>>
    /\ UNCHANGED <<mgr, htmldir>>

\* List.add(summary, details), for a list of fewer than MaxEntries entries.
ListAdd(e, brief, details) ==
    /\ eobj[e] # NoObject
    /\ eobj[e].type = "list"
    /\ count(eobj[e]) < MaxEntries
    /\ eobj' = [eobj EXCEPT ![e] = List_add(eobj[e], brief, details)]
    /\ ret' = Call("List.add", e, <<brief, details>>, "ok", NoValue)
    /\ UNCHANGED <<fobj, _files, _sections, added>>
    /\ UNCHANGED <<mgr, htmldir>>

\* table.add(*columndata), for a table of fewer than MaxEntries entries.
TableAdd(e, columndata) ==
    /\ eobj[e] # NoObject
    /\ eobj[e].type = "table"
    /\ count(eobj[e]) < MaxEntries
    /\ LET r == Table_add(eobj[e], columndata)
       IN  /\ eobj' = [eobj EXCEPT ![e] = r.obj]
           /\ ret' = Call("Table.add", e, columndata, r.status, count(eobj[e]))
    /\ UNCHANGED <<fobj, _files, _sections, added>>
    /\ UNCHANGED <<mgr, htmldir>>

\* element.summary = (name, value, unit), as the adapters assign it.
SetSummary(e, tuple) ==
    /\ eobj[e] # NoObject
    /\ eobj' = [eobj EXCEPT ![e].summary = tuple]
    /\ ret' = Call("summary=", e, tuple, "ok", NoValue)
    /\ UNCHANGED <<fobj, _files, _sections, added>>
    /\ UNCHANGED <<mgr, htmldir>>

(***************************************************************************)
(* Actions on Report                                                       *)
(***************************************************************************)
\* Every caller passes a File, List or Table instance to Report.add once:
\* an instance that was added is not added again.
WasAdded(data) ==
    IF data.cls = "File" THEN fobj[data.id].outputpath # <<>>
    ELSE \E i \in DOMAIN _sections : data.id \in Range(_sections[i].val)

\* The File branch of Report.add without the return that ends the
\* duplicate case: the later instance takes a new path and the stored one's place.
add_File_no_return(f) ==
    LET index == Len(_files)
        ident == File_identifier(fobj[f])
    IN  [fobj |-> [fobj EXCEPT ![f].outputpath = outputpath_of(index)],
         _files |-> DictSet(_files, ident, f)]

\* The File branch of Report.add numbering the output files by the number
\* of add calls and not by the size of the pool.
add_File_count_calls(f) ==
    LET index == Cardinality({g \in FileIds : fobj[g] # NoObject
                                              /\ fobj[g].outputpath # <<>>})
        ident == File_identifier(fobj[f])
    IN  IF DictHas(_files, ident)
        THEN [fobj |-> [fobj EXCEPT ![f].outputpath =
                            fobj[DictGet(_files, ident)].outputpath],
              _files |-> _files]
        ELSE [fobj |-> [fobj EXCEPT ![f].outputpath = outputpath_of(index)],
              _files |-> DictSet(_files, ident, f)]

\* The branch of Report.add for a File: the new File objects and the new
\* pool.
add_File(f) ==
    LET index == Len(_files)
        ident == File_identifier(fobj[f])
    IN  IF DictHas(_files, ident)
        THEN [fobj |-> [fobj EXCEPT ![f].outputpath =
                            fobj[DictGet(_files, ident)].outputpath],
              _files |-> _files]
        ELSE [fobj |-> [fobj EXCEPT ![f].outputpath = outputpath_of(index)],
              _files |-> DictSet(_files, ident, f)]

\* The List/Table branch of Report.add putting the element in front of the
\* elements of its section.
add_Elem_in_front(section, e) ==
    IF ~DictHas(_sections, section)
    THEN DictSet(_sections, section, <<e>>)
    ELSE DictSet(_sections, section, <<e>> \o DictGet(_sections, section))

\* The branch of Report.add for a List or Table: the new sections.
add_Elem(section, e) ==
    IF ~DictHas(_sections, section)
    THEN DictSet(_sections, section, <<e>>)
    ELSE DictSet(_sections, section, Append(DictGet(_sections, section), e))

\* Report.add(section, data)
Report_add(section, data) ==
    /\ IF data.cls = "File" THEN fobj[data.id] # NoObject ELSE eobj[data.id] # NoObject
    /\ ~WasAdded(data)
    /\ IF data.cls = "File"
       THEN LET r == add_File(data.id)
            IN  /\ fobj' = r.fobj
                /\ _files' = r._files
                /\ added' = [added EXCEPT ![data.id] = Identity(fobj[data.id])]
                /\ UNCHANGED _sections
       ELSE /\ _sections' = add_Elem(section, data.id)
            /\ UNCHANGED <<fobj, _files, added>>
    /\ ret' = Call("add", data.id, [section |-> section, cls |-> data.cls], "ok", NoValue)
    /\ UNCHANGED eobj
    /\ UNCHANGED <<mgr, htmldir>>

\* Report.summary reading the section with a default (as a defaultdict
\* would): a name that is no section becomes an empty section.
Report_summary_default(section) ==
    /\ IF DictHas(_sections, section)
       THEN /\ ret' = Call("summary", 0, section, "ok", summary_dict(section))
            /\ UNCHANGED _sections
       ELSE /\ ret' = Call("summary", 0, section, "ok",
                           [name |-> "Issues", value |-> 0, unit |-> ""])
            /\ _sections' = DictSet(_sections, section, <<>>)
    /\ UNCHANGED <<fobj, eobj, _files, added, mgr, htmldir>>

\* Report.summary(section): a KeyError for a name that is no section.
Report_summary(section) ==
    /\ IF DictHas(_sections, section)
       THEN ret' = Call("summary", 0, section, "ok", summary_dict(section))
       ELSE ret' = Call("summary", 0, section, "KeyError", NoValue)
    /\ UNCHANGED <<fobj, eobj, _files, _sections, added>>
    /\ UNCHANGED <<mgr, htmldir>>

\* Report.get_total(section): the value of summary(section); the KeyError
\* of summary is not caught.
Report_get_total(section) ==
    /\ IF DictHas(_sections, section)
       THEN ret' = Call("get_total", 0, section, "ok", summary_dict(section).value)
       ELSE ret' = Call("get_total", 0, section, "KeyError", NoValue)
    /\ UNCHANGED <<fobj, eobj, _files, _sections, added, mgr, htmldir>>

\* The documents of the snippets render writes: outputdir / file.outputpath
\* for every File of the pool, as paths relative to the report directory.
render_filelist(files, objs) == {objs[files[i].val].outputpath : i \in DOMAIN files}

\* The style sheets of the template directory, copied to REPORT_FILES_DIR.
StyleSheets == {reldir \o <<"/", "report", ".css">>}

\* glob(REPORT_FILES_DIR / "*.html"): the files of the directory whose name
\* ends in .html.
glob_html(dir) == {path \in dir : path[Len(path)] = ".html"}

\* render that leaves the documents of earlier runs in place.
render_keep_all(dir, files, objs) ==
    dir \cup StyleSheets \cup render_filelist(files, objs)

\* Report.render: the files of REPORT_FILES_DIR after the call.  The style
\* sheets are copied and a document is written for every File of the pool;
\* then every *.html file there that was not written is removed.
render(dir, files, objs) ==
    LET filelist == render_filelist(files, objs)
        written == dir \cup StyleSheets \cup filelist
    IN  written \ {existing \in glob_html(written) : existing \notin filelist}

\* Report.render()
Report_render ==
    /\ htmldir' = render(htmldir, _files, fobj)
    /\ ret' = Call("render", 0, <<>>, "ok", htmldir)
    /\ UNCHANGED <<fobj, eobj, _files, _sections, added, mgr>>

\* An earlier run of the program rendered a report with n snippets into the
\* directory that is still there.
EarlierRender(n) ==
    /\ ret.op = "Report"
    /\ htmldir = {}
    /\ htmldir' = StyleSheets \cup {outputpath_of(i) : i \in 0..(n - 1)}
    /\ UNCHANGED <<fobj, eobj, _files, _sections, added, mgr, ret>>

(***************************************************************************)
(* Actions of the adapters                                                 *)
(***************************************************************************)
\* The state after the report() of an adapter: what its calls made of the
\* report, and the call with its input, its outcome (ok or the exception
\* that left report()) and the sections before the call.
AdapterReport(op, input, rs) ==
    /\ rs.status # "exhausted"
    /\ fobj' = rs.fobj
    /\ eobj' = rs.eobj
    /\ _files' = rs._files
    /\ _sections' = rs._sections
    /\ added' = rs.added
    /\ ret' = Call(op, 0, input, rs.status, _sections)
    /\ UNCHANGED htmldir

StyleCheckReport(flakefile) ==
    /\ AdapterReport("StyleCheck.report", flakefile,
                     StyleCheck_report(ReportState, flakefile))
    /\ UNCHANGED mgr

TypeCheckReport(xmlfile) ==
    /\ AdapterReport("TypeCheck.report", xmlfile,
                     TypeCheck_report(ReportState, xmlfile))
    /\ UNCHANGED mgr

SecurityCheckReport(safetyfiles, banditfile) ==
    /\ AdapterReport("SecurityCheck.report",
                     [safetyfiles |-> safetyfiles, banditfile |-> banditfile],
                     SecurityCheck_report(ReportState, safetyfiles, banditfile))
    /\ UNCHANGED mgr

TestReport(coveragefile) ==
    /\ AdapterReport("Test.report", coveragefile,
                     Test_report(ReportState, coveragefile))
    /\ UNCHANGED mgr

SupportedVersionsReport(noxfile) ==
    /\ AdapterReport("SupportedVersions.report", noxfile,
                     SupportedVersions_report(ReportState, noxfile))
    /\ UNCHANGED mgr

\* DocInspector.report of an inspector that holds the given data.
DocInspectorReport(self) ==
    /\ AdapterReport("DocInspector.report", self,
                     DocInspector_report(ReportState, self))
    /\ UNCHANGED mgr

(***************************************************************************)
(* Actions of Manager: the steps of the commands report and build.         *)
(***************************************************************************)
\* What follows when a step ended: the exception leaves the command.
next_pc(status, pc) == IF status = "ok" THEN pc ELSE "raised"
failure(status) == IF status = "ok" THEN "" ELSE status

\* Manager.__init__ dispatching the command.  build sets the version and
\* calls self.remove(quiet), which removes the report directory and the
\* output files of the tools, before it calls report.
Manager_command(cmd, keep) ==
    /\ mgr.pc = "idle"
    /\ mgr' = [mgr EXCEPT !.pc = "report", !.cmd = cmd, !.keep = keep]
    /\ htmldir' = IF cmd = "build" THEN {} ELSE htmldir
    /\ ret' = Call("Manager." \o cmd, 0, keep, "ok", NoValue)
    /\ UNCHANGED <<fobj, eobj, _files, _sections, added>>

\* Manager.report: self._report = Report(...), a new and empty report.
Manager_report_begin ==
    /\ mgr.pc = "report"
    /\ mgr' = [mgr EXCEPT !.pc = "run", !.step = 1]
    /\ _files' = <<>>
    /\ _sections' = <<>>
    /\ ret' = Call("Report", 0, <<>>, "ok", NoValue)
    /\ UNCHANGED <<fobj, eobj, added, htmldir>>

\* The next run() of Manager.report: the tool writes its output file, or
\* none, and run() returns whether the tool passed.  run() does not raise:
\* pyexecute returns the exit code of the tool.
Manager_run(outcome) ==
    /\ mgr.pc = "run"
    /\ LET adapter == RunOrder[mgr.step]
       IN  /\ mgr' = [mgr EXCEPT
                        !.out[adapter] = outcome.file,
                        !.passed = Append(@, outcome.passed),
                        !.ran = Append(@, adapter),
                        !.step = IF mgr.step = Len(RunOrder) THEN 0 ELSE @ + 1,
                        !.pc = IF mgr.step = Len(RunOrder) THEN "load" ELSE "run"]
           /\ ret' = Call(adapter \o ".run", 0, outcome.file, "ok", outcome.passed)
    /\ UNCHANGED <<fobj, eobj, _files, _sections, added, htmldir>>

\* self._docinspector.load()
Manager_load ==
    /\ mgr.pc = "load"
    /\ LET r == DocInspector_load(mgr.doc, mgr.out.doc)
       IN  /\ mgr' = [mgr EXCEPT !.doc = r.obj, !.step = 1,
                                 !.pc = next_pc(r.status, "reports"),
                                 !.exception = failure(r.status)]
           /\ ret' = Call("DocInspector.load", 0, mgr.out.doc, r.status, NoValue)
    /\ UNCHANGED <<fobj, eobj, _files, _sections, added, htmldir>>

\* One report() of Manager.report, in the order of ReportOrder: rs is the
\* report after the calls the adapter makes on the output its tool left.
Manager_adapter_report(adapter, rs) ==
    /\ mgr.pc = "reports"
    /\ ReportOrder[mgr.step] = adapter
    /\ AdapterReport(adapter \o ".report", mgr.out, rs)
    /\ mgr' = [mgr EXCEPT
                 !.reported = Append(@, adapter),
                 !.step = IF mgr.step = Len(ReportOrder) THEN 0 ELSE @ + 1,
                 !.pc = next_pc(rs.status, IF mgr.step = Len(ReportOrder)
                                         THEN "render" ELSE "reports"),
                 !.exception = failure(rs.status)]

\* self._report.render()
Manager_render ==
    /\ mgr.pc = "render"
    /\ mgr' = [mgr EXCEPT !.rendered = TRUE, !.pc = "return"]
    /\ htmldir' = render(htmldir, _files, fobj)
    /\ ret' = Call("render", 0, <<>>, "ok", htmldir)
    /\ UNCHANGED <<fobj, eobj, _files, _sections, added>>

\* The end of Manager.report: the clean() calls unless keep, and the return
\* of the conjunction of the results of run().  The command report ends
\* here; build goes on and does not read what report returned.
Manager_report_return ==
    /\ mgr.pc = "return"
    /\ mgr' = [mgr EXCEPT !.returned = all_passed(mgr.passed),
                          !.out = IF mgr.keep THEN @ ELSE NoOutput,
                          !.pc = IF mgr.cmd = "build" THEN "badges" ELSE "done"]
    /\ ret' = Call("Manager.report", 0, <<>>, "ok", all_passed(mgr.passed))
    /\ UNCHANGED <<fobj, eobj, _files, _sections, added, htmldir>>

\* Manager.build after report: the badges of the totals of the sections
\* Test, Documentation, and Security plus Dependencies.  get_total raises
\* KeyError for a name that is no section.
Manager_badges ==
    /\ mgr.pc = "badges"
    /\ LET names == {"Test", "Documentation", "Security", "Dependencies"}
           status == IF \A name \in names : DictHas(_sections, name)
                     THEN "ok" ELSE "KeyError"
           total(name) == summary_dict(name).value
           badges ==
               <<get_coverage_badge_data("test coverage", total("Test"),
                                         TEST_COVERAGE_THRESHOLDS),
                 get_coverage_badge_data("doc coverage", total("Documentation"),
                                         DOCUMENTATION_COVERAGE_THRESHOLDS),
                 get_issue_badge_data("vulnerabilities",
                                      PyInt(total("Security") + total("Dependencies")),
                                      SECURITY_ISSUES_THRESHOLDS)>>
       IN  /\ mgr' = [mgr EXCEPT !.pc = next_pc(status, "build"),
                                 !.exception = failure(status)]
           /\ ret' = Call("Manager.build", 0, "badges", status,
                          IF status = "ok" THEN badges ELSE NoValue)
    /\ UNCHANGED <<fobj, eobj, _files, _sections, added, htmldir>>

\* Manager.build: self._build.run(), then the build badge, the second
\* self._doc.run() and self._clean(quiet, keep).
Manager_build_run(passed) ==
    /\ mgr.pc = "build"
    /\ mgr' = [mgr EXCEPT !.built = TRUE, !.pc = "done",
                          !.out = IF mgr.keep THEN @ ELSE NoOutput]
    /\ ret' = Call("Build.run", 0, <<>>, "ok", passed)
    /\ UNCHANGED <<fobj, eobj, _files, _sections, added, htmldir>>

(***************************************************************************)
(* run() and ispassed() of an adapter.                                     *)
(***************************************************************************)
\* adapter.run(): the tools end with the exit codes given.
Adapter_run(adapter, codes) ==
    /\ mgr' = [mgr EXCEPT !._passed[adapter] = run_passed(adapter, codes),
                          !.lastrun[adapter] = str_bool(run_returns(adapter, codes))]
    /\ ret' = Call("run", 0, [adapter |-> adapter, codes |-> codes], "ok",
                   run_returns(adapter, codes))
    /\ UNCHANGED <<fobj, eobj, _files, _sections, added, htmldir>>

\* adapter.ispassed()
Adapter_ispassed(adapter) ==
    /\ ret' = Call("ispassed", 0, [adapter |-> adapter], "ok", mgr._passed[adapter])
    /\ UNCHANGED <<fobj, eobj, _files, _sections, added, mgr, htmldir>>

(***************************************************************************)
(* Actions on Badge                                                        *)
(***************************************************************************)
GetThresholdColorGTE(thresholddict, value) ==
    /\ ret' = Call("_getThresholdColorGTE", 0,
                   [thresholddict |-> thresholddict, value |-> value], "ok",
                   _getThresholdColorGTE(thresholddict, value))
    /\ UNCHANGED <<fobj, eobj, _files, _sections, added>>
    /\ UNCHANGED <<mgr, htmldir>>

GetThresholdColorLTE(thresholddict, value) ==
    /\ ret' = Call("_getThresholdColorLTE", 0,
                   [thresholddict |-> thresholddict, value |-> value], "ok",
                   _getThresholdColorLTE(thresholddict, value))
    /\ UNCHANGED <<fobj, eobj, _files, _sections, added>>
    /\ UNCHANGED <<mgr, htmldir>>

GetIssueBadgeData(title, value, thresholds) ==
    /\ ret' = Call("get_issue_badge_data", 0,
                   [title |-> title, value |-> value, thresholds |-> thresholds],
                   "ok", get_issue_badge_data(title, value, thresholds))
    /\ UNCHANGED <<fobj, eobj, _files, _sections, added>>
    /\ UNCHANGED <<mgr, htmldir>>

(***************************************************************************)
(* Spec: File snippets and the snippet pool of the Report.  Files are      *)
(* opened under three spellings ("a" relative and absolute, and "b"), a    *)
(* line is marked before or after the File is added.                       *)
(***************************************************************************)
PoolPaths == {<<"a">>, FileA, <<"b">>}

Next ==
    \/ \E f \in FileIds, p \in PoolPaths : NewFile(f, p)
    \/ \E f \in FileIds : Mark(f, PyInt(1), COLOR_BAD)
    \/ \E f \in FileIds : Report_add(absolute(fobj[f].filepath), FileRef(f))

Spec == Init /\ [][Next]_vars

(***************************************************************************)
(* SpecFile: one File under every call of its interface, with line         *)
(* numbers, colour categories and ranges inside and outside the valid      *)
(* ones.                                                                   *)
(***************************************************************************)
LineNumbers == {0, 1, MaxLines, MaxLines + 1}
LineLists == {<<>>, <<1, MaxLines>>, <<MaxLines, 1>>, <<1, MaxLines + 1>>}
Markings == {COLOR_GOOD, COLOR_BAD, COLOR_NONE, "blue"}
RangeBounds == {-1, 0, 1, MaxLines, MaxLines + 1}

NextFile ==
    \/ \E p \in FilePaths : NewFile(1, p)
    \/ \E l \in LineNumbers, m \in Markings : Mark(1, PyInt(l), m)
    \/ \E l \in LineLists, m \in Markings : Mark(1, PyList(l), m)
    \/ \E lo \in RangeBounds, hi \in RangeBounds : SetRange(1, <<lo, hi>>)
    \/ \E m \in {COLOR_BAD, "blue"} : SetMarkName(1, m, "Finding")

SpecFile == Init /\ [][NextFile]_vars

(***************************************************************************)
(* SpecSections: Lists added to the sections of the Report, and the        *)
(* summary of a section.                                                   *)
(***************************************************************************)
SectionNames == {"Style", "Test"}
Coverage == <<"Coverage", 97, "%">>

NextSections ==
    \/ \E e \in ElemIds : NewList(e, "")
    \/ \E e \in ElemIds : ListAdd(e, "finding", "")
    \/ \E e \in ElemIds : SetSummary(e, Coverage)
    \/ \E e \in ElemIds, s \in SectionNames : Report_add(s, ElemRef(e))
    \/ \E s \in SectionNames \cup {"Types"} : Report_summary(s)

SpecSections == Init /\ [][NextSections]_vars

(***************************************************************************)
(* SpecLookup: Lists are added under the names "Style" and "Types", a File *)
(* under the name "Types"; the summary and the total of the three names    *)
(* are requested at any time.                                              *)
(***************************************************************************)
LookupNames == {"Style", "Types", "Test"}

NextLookup ==
    \/ NewFile(1, <<"a">>)
    \/ \E e \in ElemIds : NewList(e, "")
    \/ Report_add("Types", FileRef(1))
    \/ \E e \in ElemIds, s \in {"Style", "Types"} : Report_add(s, ElemRef(e))
    \/ \E s \in LookupNames : Report_summary(s)
    \/ \E s \in LookupNames : Report_get_total(s)

SpecLookup == Init /\ [][NextLookup]_vars

(***************************************************************************)
(* SpecAdapters: the report() of each adapter on a new Report, for every   *)
(* state of the output file of its tool: absent, empty, malformed, and     *)
(* data with no, one or more findings in the files "a" and "b".            *)
(***************************************************************************)
\* The sequences over S of a length up to n.
SeqUpTo(S, n) == UNION {[1..k -> S] : k \in 0..n}
\* The sequences in which no two items have the same file name (the items
\* of a dict).
DistinctNames(items) ==
    \A i, j \in DOMAIN items : items[i].filename = items[j].filename => i = j

FindingLines == {1, MaxLines}
ToolFailures == {ToolAbsent, ToolEmpty, ToolMalformed}

FlakeFiles ==
    ToolFailures \cup
    {ToolData(d) : d \in {items \in SeqUpTo([filename : {<<"a">>, <<"b">>},
                                              issues : SeqUpTo(FindingLines, MaxFindings)],
                                             MaxFindings) : DistinctNames(items)}}
MypyFiles ==
    ToolFailures \cup
    {ToolData(d) : d \in SeqUpTo([filename : {FileA, FileB}, line : FindingLines],
                                 MaxFindings)}
SafetyFiles ==
    ToolFailures \cup
    {ToolData(d) : d \in [haskey : BOOLEAN, vulnerabilities : {0, 1}]}
SafetyFileNames ==
    {<<[name |-> <<"Active Environment">>, file |-> active],
       [name |-> <<"setup.cfg">>, file |-> setup]>> :
        active \in SafetyFiles, setup \in {ToolAbsent, ToolData([haskey |-> TRUE,
                                                                 vulnerabilities |-> 0])}}
BanditFiles ==
    ToolFailures \cup
    {ToolData(d) : d \in SeqUpTo([filename : {FileA, <<"b">>},
                                  line_range : {<<>>, <<1>>, <<1, MaxLines>>}],
                                 MaxFindings)}
CoverageFiles ==
    ToolFailures \cup
    {ToolData([files |-> d, totals |-> 97]) :
        d \in {items \in SeqUpTo([filename : {<<"a">>, <<"b">>},
                                   executed : {<<>>, <<1>>},
                                   missing : {<<>>, <<MaxLines>>},
                                   excluded : {<<>>}],
                                  MaxFindings) : DistinctNames(items)}}
NoxFiles == ToolFailures \cup {ToolData(n) : n \in 0..MaxFindings}
DocCoverage ==
    [documented : {0, 3},
     log : SeqUpTo([filename : {FileA, FileB}, lines : {<<1, 1>>, <<1, MaxLines>>}],
                   MaxFindings)]

\* A new Report: no call was made on it.
IsNewReport == ret.op = "Report"

NextAdapters ==
    \/ IsNewReport /\ \E file \in FlakeFiles : StyleCheckReport(file)
    \/ IsNewReport /\ \E file \in MypyFiles : TypeCheckReport(file)
    \/ IsNewReport /\ \E safety \in SafetyFileNames, bandit \in BanditFiles :
            SecurityCheckReport(safety, bandit)
    \/ IsNewReport /\ \E file \in CoverageFiles : TestReport(file)
    \/ IsNewReport /\ \E file \in NoxFiles : SupportedVersionsReport(file)
    \/ IsNewReport /\ \E doc \in DocCoverage : DocInspectorReport(doc)

SpecAdapters == Init /\ [][NextAdapters]_vars

(***************************************************************************)
(* SpecPool: the report() of Test, TypeCheck, StyleCheck and DocInspector  *)
(* on one Report, each at most once and in any order, the tools reporting  *)
(* on the file "a": coverage with or without executed and missing lines,   *)
(* and one finding at the first or the last line.                          *)
(***************************************************************************)
PoolCoverageFiles ==
    {ToolData([files |-> <<[filename |-> <<"a">>, executed |-> ex, missing |-> mi,
                            excluded |-> <<>>]>>,
               totals |-> 97]) : ex \in {<<>>, <<1>>}, mi \in {<<>>, <<MaxLines>>}}
PoolMypyFiles == {ToolData(<<[filename |-> FileA, line |-> l]>>) : l \in FindingLines}
PoolFlakeFiles ==
    {ToolData(<<[filename |-> <<"a">>, issues |-> <<l>>]>>) : l \in FindingLines}
PoolDocCoverage ==
    {[documented |-> 3, log |-> <<[filename |-> FileA, lines |-> <<l, MaxLines>>]>>] :
        l \in FindingLines}

\* The adapter did not report to this Report yet: its section is not there.
NotReported(section) == ~DictHas(_sections, section)

NextPool ==
    \/ NotReported("Test") /\ \E file \in PoolCoverageFiles : TestReport(file)
    \/ NotReported("Types") /\ \E file \in PoolMypyFiles : TypeCheckReport(file)
    \/ NotReported("Style") /\ \E file \in PoolFlakeFiles : StyleCheckReport(file)
    \/ NotReported("Documentation") /\ \E doc \in PoolDocCoverage : DocInspectorReport(doc)

SpecPool == Init /\ [][NextPool]_vars

(***************************************************************************)
(* SpecRange: the report() of the findings adapters on a new Report, the   *)
(* tools reporting findings in the long file "l": single lines, pairs and  *)
(* lists of lines with and without gaps.                                   *)
(***************************************************************************)
RangeLines == {1, MaxLines, MaxLines + 1}
LinePairs == {<<lo, hi>> : lo \in RangeLines, hi \in RangeLines}
NoSafetyFiles ==
    <<[name |-> <<"Active Environment">>, file |-> ToolAbsent],
      [name |-> <<"setup.cfg">>, file |-> ToolAbsent]>>

RangeFlakeFiles ==
    {ToolData(<<[filename |-> <<"l">>, issues |-> issues]>>) :
        issues \in SeqUpTo(RangeLines, 2) \ {<<>>}}
RangeMypyFiles ==
    {ToolData([i \in DOMAIN lines |-> [filename |-> FileL, line |-> lines[i]]]) :
        lines \in SeqUpTo(RangeLines, 2) \ {<<>>}}
RangeBanditFiles ==
    {ToolData(<<[filename |-> FileL, line_range |-> lines]>>) :
        lines \in {<<l>> : l \in RangeLines} \cup LinePairs}
RangeDocCoverage ==
    {[documented |-> 3, log |-> [i \in DOMAIN pairs |-> [filename |-> FileL,
                                                         lines |-> pairs[i]]]] :
        pairs \in SeqUpTo(LinePairs, 2) \ {<<>>}}

NextRange ==
    \/ IsNewReport /\ \E file \in RangeFlakeFiles : StyleCheckReport(file)
    \/ IsNewReport /\ \E file \in RangeMypyFiles : TypeCheckReport(file)
    \/ IsNewReport /\ \E file \in RangeBanditFiles :
            SecurityCheckReport(NoSafetyFiles, file)
    \/ IsNewReport /\ \E doc \in RangeDocCoverage : DocInspectorReport(doc)

SpecRange == Init /\ [][NextRange]_vars

(***************************************************************************)
(* SpecRender: the files "a" (under two spellings) and "b" are added to    *)
(* the pool and the report is rendered, once or again after more Files     *)
(* were added, into a directory that holds the documents of an earlier run *)
(* with up to NumFiles + 1 snippets.                                       *)
(***************************************************************************)
NextRender ==
    \/ \E n \in 1..(NumFiles + 1) : EarlierRender(n)
    \/ \E f \in FileIds, path \in PoolPaths : NewFile(f, path)
    \/ \E f \in FileIds : Report_add(absolute(fobj[f].filepath), FileRef(f))
    \/ Report_render

SpecRender == Init /\ [][NextRender]_vars

(***************************************************************************)
(* SpecManager: the commands report and build.  Each tool either passes    *)
(* and leaves output without findings, or fails (a non-zero exit code)     *)
(* and leaves output with a finding, or fails and leaves no output file,   *)
(* or fails and leaves output that is not JSON (bandit, which writes its   *)
(* report itself, still leaves one).                                       *)
(***************************************************************************)
RunKinds == {"passed", "failed", "nofile", "nojson"}

\* The output of a tool with n findings, in "a" at line 1.
Findings(adapter, n) ==
    CASE adapter = "security" ->
            [safetyfiles |->
                <<[name |-> <<"Active Environment">>,
                   file |-> ToolData([haskey |-> TRUE, vulnerabilities |-> n])],
                  [name |-> <<"setup.cfg">>,
                   file |-> ToolData([haskey |-> TRUE, vulnerabilities |-> 0])]>>,
             banditfile |->
                ToolData([i \in 1..n |-> [filename |-> FileA, line_range |-> <<1>>]])]
      [] adapter = "style" ->
            ToolData(<<[filename |-> <<"a">>, issues |-> [i \in 1..n |-> 1]]>>)
      [] adapter = "type" ->
            ToolData([i \in 1..n |-> [filename |-> FileA, line |-> 1]])
      [] adapter = "test" ->
            ToolData([files |-> <<[filename |-> <<"a">>, executed |-> <<1>>,
                                  missing |-> [i \in 1..n |-> MaxLines],
                                  excluded |-> <<>>]>>,
                      totals |-> 97])
      [] adapter = "supported" -> ToolData(1)
      [] adapter = "doc" ->
            ToolData([documented |-> 3,
                      log |-> [i \in 1..n |-> [filename |-> FileA, lines |-> <<1, 1>>]]])

\* What run() of an adapter returns and what its tool leaves.
RunOutcome(adapter, kind) ==
    CASE kind = "passed" -> [passed |-> TRUE, file |-> Findings(adapter, 0)]
      [] kind = "failed" -> [passed |-> FALSE, file |-> Findings(adapter, 1)]
      [] kind = "nofile" ->
            [passed |-> FALSE,
             file |-> IF adapter = "security"
                      THEN [safetyfiles |->
                                <<[name |-> <<"Active Environment">>, file |-> ToolAbsent],
                                  [name |-> <<"setup.cfg">>, file |-> ToolAbsent]>>,
                            banditfile |-> ToolAbsent]
                      ELSE ToolAbsent]
      [] kind = "nojson" ->
            [passed |-> FALSE,
             file |-> IF adapter = "security"
                      THEN [safetyfiles |->
                                <<[name |-> <<"Active Environment">>, file |-> ToolMalformed],
                                  [name |-> <<"setup.cfg">>, file |-> ToolMalformed]>>,
                            banditfile |-> Findings(adapter, 0).banditfile]
                      ELSE ToolMalformed]

NextManager ==
    \/ \E cmd \in {"report", "build"}, keep \in BOOLEAN : Manager_command(cmd, keep)
    \/ Manager_report_begin
    \/ \E kind \in RunKinds : Manager_run(RunOutcome(RunOrder[mgr.step], kind))
    \/ Manager_load
    \/ Manager_adapter_report("supported",
            SupportedVersions_report(ReportState, mgr.out.supported))
    \/ Manager_adapter_report("test", Test_report(ReportState, mgr.out.test))
    \/ Manager_adapter_report("docinspector", DocInspector_report(ReportState, mgr.doc))
    \/ Manager_adapter_report("security",
            SecurityCheck_report(ReportState, mgr.out.security.safetyfiles,
                                 mgr.out.security.banditfile))
    \/ Manager_adapter_report("style", StyleCheck_report(ReportState, mgr.out.style))
    \/ Manager_adapter_report("type", TypeCheck_report(ReportState, mgr.out.type))
    \/ Manager_render
    \/ Manager_report_return
    \/ Manager_badges
    \/ \E passed \in BOOLEAN : Manager_build_run(passed)

SpecManager == Init /\ [][NextManager]_vars

(***************************************************************************)
(* SpecRun: run() and ispassed() of the adapters, every tool ending with   *)
(* the exit code 0 or 1, with up to MaxRequirements requirements files.    *)
(***************************************************************************)
ExitCodes(adapter) ==
    UNION {[DOMAIN tools(adapter, n) -> {0, 1}] :
            n \in IF adapter = "security" THEN 0..MaxRequirements ELSE {0}}

NextRun ==
    \/ \E adapter \in Adapters : \E codes \in ExitCodes(adapter) :
            Adapter_run(adapter, codes)
    \/ \E adapter \in Adapters : Adapter_ispassed(adapter)

SpecRun == Init /\ [][NextRun]_vars

(***************************************************************************)
(* SpecTable: one Table, rows of every arity, its section and summary.     *)
(***************************************************************************)
ColumnNames == <<"Module", "Statements", "Missing", "Excluded", "Coverage">>
ColumnLists == {[i \in 1..n |-> ColumnNames[i]] : n \in 0..MaxColumns}
               \cup {<<"Module", "Module">>}
RowData == {[i \in 1..n |-> i] : n \in 0..(MaxColumns + 1)}

NextTable ==
    \/ \E c \in ColumnLists : NewTable(1, "", c)
    \/ \E d \in RowData : TableAdd(1, d)
    \/ SetSummary(1, Coverage)
    \/ Report_add("Test", ElemRef(1))
    \/ Report_summary("Test")

SpecTable == Init /\ [][NextTable]_vars

(***************************************************************************)
(* SpecBadge: the threshold lookups on every table over three keys, the    *)
(* tables of Settings among them.                                          *)
(***************************************************************************)
ThresholdKeys == {0, 94, 99}
BadgeColors == {"brightgreen", "yellow", "orange"}
THRESHOLDS_EXAMPLE == (90 :> "orange") @@ (94 :> "yellow") @@ (99 :> "brightgreen")
ThresholdTables ==
    UNION {[S -> BadgeColors] : S \in SUBSET ThresholdKeys}
        \cup {THRESHOLDS_EXAMPLE, TEST_COVERAGE_THRESHOLDS, SECURITY_ISSUES_THRESHOLDS}
BadgeValues == {-1, 0, 3, 10, 90, 94, 95, 98, 99, 100}

\* The values of an issue count: absent, or an integer.
OptionalValues == {PyNone} \cup {PyInt(v) : v \in BadgeValues}

NextBadge ==
    \/ \E d \in ThresholdTables, v \in BadgeValues : GetThresholdColorGTE(d, v)
    \/ \E d \in ThresholdTables, v \in BadgeValues : GetThresholdColorLTE(d, v)
    \/ \E d \in ThresholdTables, v \in OptionalValues :
            GetIssueBadgeData("vulnerabilities", v, d)

SpecBadge == Init /\ [][NextBadge]_vars

(***************************************************************************)
(* The properties checked.                                                 *)
(***************************************************************************)
IsAdded(f) == added[f] # NotAdded
\* The pool positions whose stored File was added with the given identity.
EntriesFor(identity) == {i \in DOMAIN _files : added[_files[i].val] = identity}
Stored(f) == \E i \in DOMAIN _files : _files[i].val = f

\* C1: whenever two File snippets were passed to Report.add with the same
\* absolute path, the same display range and the same colour sequence, the
\* pool holds exactly one entry for that identity and both instances carry
\* the same output path.
C1_DedupOneEntry ==
    \A f, g \in FileIds :
        (IsAdded(f) /\ IsAdded(g) /\ added[f] = added[g]) =>
            /\ Cardinality(EntriesFor(added[f])) = 1
            /\ fobj[f].outputpath = fobj[g].outputpath
            /\ fobj[f].outputpath # <<>>

\* Two instances opened under different spellings of one file, both marked
\* and added with the same identity, share one pool entry and one path.
C1_Witness ==
    \E f, g \in FileIds :
        /\ f # g /\ IsAdded(f) /\ IsAdded(g) /\ added[f] = added[g]
        /\ fobj[f].filepath # fobj[g].filepath
        /\ added[f][3][1] = COLOR_BAD
        /\ fobj[f].outputpath = fobj[g].outputpath
        /\ Cardinality(EntriesFor(added[f])) = 1

\* C2: deduplication is first-wins.  No step changes a pool entry or the
\* output path of a stored File, and a step that adds a File whose identity
\* is already in the pool leaves the pool as it is and gives the added File
\* the output path of the stored one.
C2_FirstWins ==
    [][/\ \A i \in DOMAIN _files :
            /\ i \in DOMAIN _files'
            /\ _files'[i] = _files[i]
            /\ fobj'[_files[i].val].outputpath = fobj[_files[i].val].outputpath
       /\ \A f \in FileIds :
            (~IsAdded(f) /\ IsAdded(f)' /\ EntriesFor(added'[f]) # {}) =>
                /\ _files' = _files
                /\ \A i \in EntriesFor(added'[f]) :
                       fobj'[f].outputpath = fobj[_files[i].val].outputpath
      ]_vars

\* The last call added a duplicate of a stored File that was marked after
\* it had been stored: the duplicate took the stored File's path.
C2_Witness ==
    /\ ret.op = "add"
    /\ ~Stored(ret.self)
    /\ \E i \in DOMAIN _files :
          /\ added[_files[i].val] = added[ret.self]
          /\ Identity(fobj[_files[i].val]) # added[_files[i].val]
          /\ fobj[ret.self].outputpath = fobj[_files[i].val].outputpath

\* C3: the File stored at position i of the pool (counting from 0, in
\* order of insertion) carries the output file name i.html of the files
\* directory, so the paths of the stored Files are pairwise different and a
\* duplicate add uses up no number.
C3_SequentialNames ==
    /\ \A i \in DOMAIN _files :
          fobj[_files[i].val].outputpath = <<"files", "/">> \o StrNat(i - 1) \o <<".html">>
    /\ \A i, j \in DOMAIN _files :
          i # j => fobj[_files[i].val].outputpath # fobj[_files[j].val].outputpath

\* Three Files were added, one of them a duplicate, and the last call
\* stored the second pool entry: it is named 1.html.
C3_Witness ==
    /\ \A f \in 1..3 : IsAdded(f)
    /\ Len(_files) = 2
    /\ ret.op = "add"
    /\ _files[2].val = ret.self
    /\ fobj[ret.self].outputpath = <<"files", "/", "1", ".html">>

\* C4: Report.summary of a section returns the (name, value, unit) tuple
\* its element declares when the section holds exactly one element and
\* that element declares a summary tuple; otherwise it returns the name
\* "Issues", the unit "" and as value the number of entries of all elements
\* of the section together.
EntriesOfSection(elems) ==
    {p \in (DOMAIN elems) \X (1..MaxEntries) : p[2] \in DOMAIN eobj[elems[p[1]]].entries}

C4_SectionSummary ==
    (ret.op = "summary" /\ ret.status = "ok") =>
        LET elems == DictGet(_sections, ret.args)
            declared == eobj[elems[1]].summary
        IN  IF Len(elems) = 1 /\ declared # <<>>
            THEN ret.value = [name |-> declared[1], value |-> declared[2],
                              unit |-> declared[3]]
            ELSE ret.value = [name |-> "Issues",
                              value |-> Cardinality(EntriesOfSection(elems)),
                              unit |-> ""]

\* The summary of a section of two Lists with 3 and 5 entries, the first of
\* them declaring a summary tuple, is 8 "Issues".
C4_Witness ==
    /\ ret.op = "summary" /\ ret.status = "ok"
    /\ LET elems == DictGet(_sections, ret.args)
       IN  /\ Len(elems) = 2
           /\ Len(eobj[elems[1]].entries) = 3
           /\ Len(eobj[elems[2]].entries) = 5
           /\ eobj[elems[1]].summary # <<>>
    /\ ret.value = [name |-> "Issues", value |-> 8, unit |-> ""]

\* C5: marking is last-write-wins.  A new File has every line NONE; a
\* successful mark call gives every line it names the given category and
\* leaves every other line as it was; no other successful call changes a
\* colour.
LinesGiven(lines) == IF isinstance_int(lines) THEN {lines.int} ELSE Range(lines.list)

C5_LastWriteWins ==
    [][LET f == ret'.self
       IN  IF ret'.op = "File"
           THEN \A i \in DOMAIN fobj'[f].lines : fobj'[f].lines[i].color = COLOR_NONE
           ELSE IF ret'.op = "mark" /\ ret'.status = "ok"
           THEN \A i \in DOMAIN fobj'[f].lines :
                    fobj'[f].lines[i].color =
                        IF i \in LinesGiven(ret'.args.lines)
                        THEN ret'.args.marking
                        ELSE fobj[f].lines[i].color
           ELSE IF ret'.op \in {"range", "set_mark_name"}
           THEN Colors_of(fobj'[f]) = Colors_of(fobj[f])
           ELSE TRUE
      ]_vars

\* Line 1 was BAD and the last call marked it GOOD, another line keeps BAD.
C5_Witness ==
    /\ ret.op = "mark" /\ ret.status = "ok"
    /\ ret.args.marking = COLOR_GOOD
    /\ 1 \in LinesGiven(ret.args.lines)
    /\ ret.value[1] = COLOR_BAD
    /\ fobj[ret.self].lines[1].color = COLOR_GOOD
    /\ \E i \in DOMAIN fobj[ret.self].lines : fobj[ret.self].lines[i].color = COLOR_BAD

\* C6: after the assignment file.range = (lo, hi) the stored range is
\* (max(0, lo), min(lineCount, hi)).
C6_RangeClamping ==
    ret.op = "range" =>
        LET lo == ret.args[1]
            hi == ret.args[2]
            lineCount == Len(fobj[ret.self].lines)
        IN  /\ fobj[ret.self].range[1] = (IF lo < 0 THEN 0 ELSE lo)
            /\ fobj[ret.self].range[2] = (IF hi > lineCount THEN lineCount ELSE hi)

\* A range with a negative lower bound and an upper bound beyond the file
\* was assigned and the whole file is displayed.
C6_Witness ==
    /\ ret.op = "range"
    /\ ret.args[1] < 0
    /\ ret.args[2] > Len(fobj[ret.self].lines)
    /\ Len(fobj[ret.self].lines) > 1
    /\ fobj[ret.self].range = <<0, Len(fobj[ret.self].lines)>>

\* C7: both bounds of the stored display range of every File lie within
\* 0 .. len(lines).
C7_RangeWithinFile ==
    \A f \in FileIds :
        fobj[f] # NoObject =>
            /\ fobj[f].range[1] \in 0..Len(fobj[f].lines)
            /\ fobj[f].range[2] \in 0..Len(fobj[f].lines)

\* C8: Table.add with a number of values other than the number of columns
\* raises ValueError and adds nothing; with exactly len(columns) values it
\* succeeds and count grows by one.
C8_TableArity ==
    ret.op = "Table.add" =>
        IF Len(ret.args) # Len(eobj[ret.self].columns)
        THEN ret.status = "ValueError" /\ count(eobj[ret.self]) = ret.value
        ELSE ret.status = "ok" /\ count(eobj[ret.self]) = ret.value + 1

\* A table of two columns holds a row, and the last call gave three values
\* and raised.
C8_Witness ==
    /\ ret.op = "Table.add" /\ ret.status = "ValueError"
    /\ Len(eobj[ret.self].columns) = 2
    /\ Len(ret.args) = 3
    /\ count(eobj[ret.self]) = 1
    /\ DOMAIN eobj[ret.self].entries[1] = {"Module", "Statements"}

\* C9: the "higher is better" lookup returns the colour of the largest
\* threshold key that is <= value, and "red" when no key is <= value.
C9_ThresholdGTE ==
    ret.op = "_getThresholdColorGTE" =>
        LET d == ret.args.thresholddict
            v == ret.args.value
        IN  IF \E k \in DOMAIN d : k <= v
            THEN \E k \in DOMAIN d :
                    /\ k <= v
                    /\ \A j \in DOMAIN d : j <= v => j <= k
                    /\ ret.value = d[k]
            ELSE ret.value = "red"

\* With {90: orange, 94: yellow, 99: brightgreen} the value 95 is yellow.
C9_Witness ==
    /\ ret.op = "_getThresholdColorGTE"
    /\ ret.args.thresholddict = THRESHOLDS_EXAMPLE
    /\ ret.args.value = 95
    /\ ret.value = "yellow"

\* C10: the "lower is better" lookup returns the colour of the smallest
\* threshold key that is >= value, and "red" when no key is >= value.
C10_ThresholdLTE ==
    ret.op = "_getThresholdColorLTE" =>
        LET d == ret.args.thresholddict
            v == ret.args.value
        IN  IF \E k \in DOMAIN d : k >= v
            THEN \E k \in DOMAIN d :
                    /\ k >= v
                    /\ \A j \in DOMAIN d : j >= v => j >= k
                    /\ ret.value = d[k]
            ELSE ret.value = "red"

\* With {0: brightgreen} the value 3 is red.
C10_Witness ==
    /\ ret.op = "_getThresholdColorLTE"
    /\ ret.args.thresholddict = SECURITY_ISSUES_THRESHOLDS
    /\ ret.args.value = 3
    /\ ret.value = "red"

\* The integer a string of decimal digits denotes; -1 for any other string.
RECURSIVE ParseDigits(_)
ParseDigits(s) ==
    IF s = <<>> THEN -1
    ELSE LET last == s[Len(s)]
             d == IF \E k \in 0..9 : Digit(k) = last
                  THEN CHOOSE k \in 0..9 : Digit(k) = last ELSE -1
             front == IF Len(s) = 1 THEN 0 ELSE ParseDigits(SubSeq(s, 1, Len(s) - 1))
         IN  IF d < 0 \/ front < 0 THEN -1 ELSE 10 * front + d

\* s is the decimal string of the integer n: no leading zero, and a minus
\* sign exactly for a negative n.
IsDecimalOf(s, n) ==
    LET digits == IF n < 0 THEN Tail(s) ELSE s
    IN  /\ s # <<>>
        /\ n < 0 => s[1] = "-"
        /\ ParseDigits(digits) = (IF n < 0 THEN -n ELSE n)
        /\ Len(digits) > 1 => digits[1] # "0"

\* C11: get_issue_badge_data with an absent value returns the title, the
\* label "Unknown" and the colour "red" for every threshold table, without
\* raising; with a present value the label is that value's decimal string.
C11_UnknownBadge ==
    ret.op = "get_issue_badge_data" =>
        /\ ret.status = "ok"
        /\ ret.value[1] = ret.args.title
        /\ IF ret.args.value = PyNone
           THEN ret.value[2] = <<"Unknown">> /\ ret.value[3] = "red"
           ELSE IsDecimalOf(ret.value[2], ret.args.value.int)

\* An absent value under a table in which every present value is green.
C11_Witness ==
    /\ ret.op = "get_issue_badge_data"
    /\ ret.args.value = PyNone
    /\ ret.args.thresholds = (99 :> "brightgreen")
    /\ ret.value = <<"vulnerabilities", <<"Unknown">>, "red">>

\* C12: Report.summary and Report.get_total for a name under which no List
\* or Table was added fail with a KeyError and leave the sections and the
\* snippet pool as they were.  The names that are sections are exactly the
\* names under which a List or Table was added: adding a File under a name
\* changes no section.
C12_LookupFailure ==
    [][/\ (ret'.op = "add" /\ ret'.args.cls = "File") => _sections' = _sections
       /\ DictKeys(_sections') =
            DictKeys(_sections) \cup
                (IF ret'.op = "add" /\ ret'.args.cls = "Elem"
                 THEN {ret'.args.section} ELSE {})
       /\ (ret'.op \in {"summary", "get_total"} /\ ~DictHas(_sections, ret'.args)) =>
            /\ ret'.status = "KeyError"
            /\ _sections' = _sections
            /\ _files' = _files]_vars

\* get_total("Types") fails although a File was added under "Types" and
\* another name is a section.
C12_Witness ==
    /\ ret.op = "get_total" /\ ret.args = "Types" /\ ret.status = "KeyError"
    /\ added[1] # NotAdded
    /\ DictKeys(_sections) = {"Style"}

\* The section names of the report in the order the report shows them, and
\* the elements of the section of a name (none for a name that is no section).
SectionOrder(sections) == [i \in DOMAIN sections |-> sections[i].key]
ElementsOf(sections, name) ==
    IF DictHas(sections, name) THEN DictGet(sections, name) ELSE <<>>

AdapterSection(op) ==
    CASE op = "StyleCheck.report" -> "Style"
      [] op = "TypeCheck.report" -> "Types"
      [] op = "SecurityCheck.report" -> "Security"
      [] op = "Test.report" -> "Test"
      [] op = "SupportedVersions.report" -> "Versions"
      [] op = "DocInspector.report" -> "Documentation"

\* The output file of the tool behind the findings of the last report().
ToolFile == IF ret.op = "SecurityCheck.report" THEN ret.args.banditfile ELSE ret.args

\* The Lists and Tables the last report() added to a section: the elements
\* of the section now that were not there before the call.
NewElements(name) ==
    LET before == ElementsOf(ret.value, name)
        after == ElementsOf(_sections, name)
    IN  SubSeq(after, Len(before) + 1, Len(after))

\* The last call is the report() of a findings adapter whose tool output
\* parses and holds no finding.
ZeroFindings ==
    \/ /\ ret.op = "StyleCheck.report" /\ ret.args.state = "data"
       /\ \A k \in DOMAIN ret.args.data : ret.args.data[k].issues = <<>>
    \/ ret.op = "TypeCheck.report" /\ ret.args.state = "data" /\ ret.args.data = <<>>
    \/ /\ ret.op = "SecurityCheck.report" /\ ret.args.banditfile.state = "data"
       /\ ret.args.banditfile.data = <<>>
    \/ ret.op = "DocInspector.report" /\ ret.args.log = <<>>

\* C14: the report() of a findings adapter whose tool output holds zero
\* findings adds exactly one List to the section of the adapter, and that
\* List is empty, so that the section is present in the report.
C14_EmptyFindingsPlaceholder ==
    ZeroFindings =>
        /\ ret.status = "ok"
        /\ Len(NewElements(AdapterSection(ret.op))) = 1
        /\ eobj[NewElements(AdapterSection(ret.op))[1]].entries = <<>>

\* C18: after Report.render() the *.html documents in the report-files
\* directory are exactly the output paths of the snippets of the pool: one
\* document per pool entry, and no document of an earlier rendering that is
\* not in the pool.
C18_RenderExactlyPool ==
    ret.op = "render" =>
        /\ {path \in htmldir : path[Len(path)] = ".html"} =
                {fobj[f].outputpath : f \in {g \in FileIds : Stored(g)}}
        /\ Cardinality({path \in htmldir : path[Len(path)] = ".html"}) = Len(_files)

\* The pool holds one snippet; the directory held the four documents of
\* an earlier run, three of them are removed and files/0.html is kept.
C18_Witness ==
    /\ ret.op = "render"
    /\ Len(_files) = 1
    /\ {outputpath_of(i) : i \in 0..3} \subseteq ret.value
    /\ outputpath_of(0) \in htmldir
    /\ outputpath_of(1) \notin htmldir

\* The adapters that read the output file of a tool in report().
FileAdapters ==
    {"StyleCheck.report", "TypeCheck.report", "SecurityCheck.report", "Test.report",
     "SupportedVersions.report"}

\* C16: when the output file of a tool is present but does not parse, the
\* report() of the adapter does not raise and adds a placeholder, a List
\* with an entry, to the section of the adapter.
C16_MalformedPlaceholder ==
    (ret.op \in FileAdapters /\ ToolFile.state = "malformed") =>
        /\ ret.status = "ok"
        /\ \E k \in DOMAIN NewElements(AdapterSection(ret.op)) :
                Len(eobj[NewElements(AdapterSection(ret.op))[k]].entries) >= 1

\* C17: when the scan of an adapter failed or was skipped, its output file
\* being absent or empty, report() adds one List with a one-line entry to
\* the section of the adapter, which a scan without findings does not.
C17_FailedScanEntry ==
    (ret.op \in FileAdapters /\ ToolFile.state \in {"absent", "empty"}) =>
        /\ ret.status = "ok"
        /\ Len(NewElements(AdapterSection(ret.op))) = 1
        /\ Len(eobj[NewElements(AdapterSection(ret.op))[1]].entries) = 1

\* C19: mark and set_mark_name raise ValueError for every colour category
\* that is not GOOD, BAD, NEUTRAL or NONE, and mark raises ValueError when a
\* line number it is given lies outside 1..len(lines), whatever the other
\* arguments are, an empty list of lines included.
C19_InvalidArgumentFails ==
    /\ (/\ ret.op \in {"mark", "set_mark_name"}
        /\ ret.args.marking \notin {COLOR_GOOD, COLOR_BAD, COLOR_NEUTRAL, COLOR_NONE})
            => ret.status = "ValueError"
    /\ (/\ ret.op = "mark"
        /\ \E l \in LinesGiven(ret.args.lines) :
                l \notin 1..Len(fobj[ret.self].lines))
            => ret.status = "ValueError"

\* The command has left Manager.report, by its return or by an exception.
ReportLeft == mgr.pc \in {"raised", "badges", "build", "done"}

\* C15: whatever the tools did, when Manager.report is left the run() and
\* the report() of every adapter were executed and the report was rendered.
C15_EveryAdapterReports ==
    ReportLeft =>
        /\ mgr.ran = RunOrder
        /\ mgr.reported = ReportOrder
        /\ mgr.rendered

\* C20: Manager.build calls Build.run only after a report() that returned
\* True, the results of all run() being True.
C20_BuildOnlyAfterSuccess ==
    mgr.built => mgr.returned = "True"

\* C21: ispassed() of an adapter returns what the most recent run() of that
\* adapter returned.
C21_IspassedIsLastRun ==
    (ret.op = "ispassed" /\ mgr.lastrun[ret.args.adapter] # "none") =>
        str_bool(ret.value) = mgr.lastrun[ret.args.adapter]

\* The report() calls of the adapters.
ReportOps == {"StyleCheck.report", "TypeCheck.report", "SecurityCheck.report",
              "Test.report", "SupportedVersions.report", "DocInspector.report"}

\* C22: an adapter mutates a File (mark, range) only before it passes it to
\* Report.add: after report() every File that was added has the path, the
\* range and the colours it had when it was added.
C22_MutationBeforeAdd ==
    ret.op \in ReportOps =>
        \A f \in DOMAIN fobj : IsAdded(f) => Identity(fobj[f]) = added[f]

\* The summaries of the entries the adapters create for a finding.
FindingSummaries == {"text", "msg", "test_name: issue_text", "issue: objname"}

\* The Files of the pool, and the entries for a finding in the report.
PoolFiles == {_files[i].val : i \in DOMAIN _files}
FindingEntries ==
    {entry \in UNION {Range(eobj[e].entries) :
                        e \in {l \in UNION {Range(_sections[k].val) :
                                                k \in DOMAIN _sections} :
                                    eobj[l].type = "list"}} :
        entry.summary \in FindingSummaries}

\* C23: for every entry of a finding at line L of a file, the pool holds a
\* snippet under the output path the entry links to, and that snippet is
\* one of that file with line L marked bad.
C23_LinkedSnippetShowsFinding ==
    \A entry \in FindingEntries :
        \E g \in PoolFiles :
            /\ fobj[g].outputpath = entry.details.href.path
            /\ absolute(fobj[g].filepath) = absolute(entry.details.name)
            /\ fobj[g].lines[entry.details.href.anchor].color = COLOR_BAD

\* The distinct items of a sequence in the order they are first seen.
RECURSIVE FirstSeen(_, _)
FirstSeen(seq, n) ==
    IF n = 0 THEN <<>>
    ELSE LET before == FirstSeen(seq, n - 1)
         IN  IF seq[n] \in Range(before) THEN before ELSE Append(before, seq[n])

Lines_of(entries) == [i \in DOMAIN entries |-> entries[i].details.line]

\* The findings of the last report(), each a [name, line]: the path of the
\* file relative to the working directory and the line(s) reported.
ReportedFindings ==
    IF ret.op = "SecurityCheck.report"
    THEN [i \in DOMAIN ToolFile.data |->
            [name |-> relative_to_cwd(ToolFile.data[i].filename),
             line |-> ToolFile.data[i].line_range]]
    ELSE LET flat[k \in 0..Len(ToolFile.data)] ==
                 IF k = 0 THEN <<>>
                 ELSE flat[k - 1] \o
                      [i \in DOMAIN ToolFile.data[k].issues |->
                        [name |-> relative_to_cwd(ToolFile.data[k].filename),
                         line |-> ToolFile.data[k].issues[i]]]
         IN  flat[Len(ToolFile.data)]

\* The lines of the findings of the file of the given name, in their order.
FindingsOf(name) ==
    LET f == SelectSeq(ReportedFindings, LAMBDA x : x.name = name)
    IN  [i \in DOMAIN f |-> f[i].line]

\* The files the tool output of the last report() names, in the order they
\* are first seen: the keys of the flake8 dict (a file without an issue
\* included), the files of the bandit results.
ReportedFiles ==
    LET files == [i \in DOMAIN ToolFile.data |-> relative_to_cwd(ToolFile.data[i].filename)]
    IN  FirstSeen(files, Len(files))

\* C24: a findings report adds one List per distinct file of the tool
\* output to its section, titled with the path of the file relative to the
\* working directory, in the order the files are first seen, each List
\* holding one entry per finding of the file in the original order.
C24_GroupedByFile ==
    (/\ ret.op \in {"StyleCheck.report", "SecurityCheck.report"}
     /\ ret.status = "ok"
     /\ ToolFile.state = "data"
     /\ ReportedFindings # <<>>) =>
        LET names == ReportedFiles
            lists == NewElements(AdapterSection(ret.op))
        IN  /\ Len(lists) = Len(names)
            /\ \A k \in DOMAIN names :
                    /\ eobj[lists[k]].heading = names[k]
                    /\ Lines_of(eobj[lists[k]].entries) = FindingsOf(names[k])

\* The lines of a File that are marked bad.
MarkedBad(f) == {i \in DOMAIN fobj[f].lines : fobj[f].lines[i].color = COLOR_BAD}

\* C25: the display range of a snippet of the pool that an adapter created
\* for a finding is [min - K, max + K], min and max being the first and the
\* last line the adapter marked and K being REPORT_LINE_RANGE, clamped to
\* the file by the range setter.
C25_RangeAroundMarkedLines ==
    (ret.op \in ReportOps /\ ret.status = "ok") =>
        \A f \in PoolFiles :
            MarkedBad(f) # {} =>
                fobj[f].range =
                    <<Max(0, SetMin(MarkedBad(f)) - REPORT_LINE_RANGE),
                      Min(Len(fobj[f].lines), SetMax(MarkedBad(f)) + REPORT_LINE_RANGE)>>

\* The lines the tool reported for each finding of the last report() of
\* SecurityCheck (line_range of a bandit result) or DocInspector (line_range
\* of a log entry).
ReportedLines ==
    IF ret.op = "SecurityCheck.report"
    THEN [i \in DOMAIN ToolFile.data |-> ToolFile.data[i].line_range]
    ELSE [i \in DOMAIN ret.args.log |-> ret.args.log[i].lines]

\* The snippet of the pool under the given output path.
PoolFileAt(path) == CHOOSE g \in PoolFiles : fobj[g].outputpath = path

\* C26: the snippet an adapter creates for a finding whose reported lines
\* have the minimum m and the maximum M has exactly the lines m..M marked bad.
C26_SpannedLinesMarked ==
    (ret.op \in {"SecurityCheck.report", "DocInspector.report"} /\ ret.status = "ok") =>
        LET entries == eobj[NewElements(AdapterSection(ret.op))[1]].entries
        IN  /\ Len(entries) = Len(ReportedLines)
            /\ \A i \in DOMAIN entries :
                    MarkedBad(PoolFileAt(entries[i].details.href.path)) =
                        SetMin(Range(ReportedLines[i]))..SetMax(Range(ReportedLines[i]))

\* The Files Report.add discarded as duplicates: added but not in the pool.
Discarded == {f \in DOMAIN fobj : IsAdded(f) /\ ~Stored(f)}

\* C27: a File that Report.add discarded as a duplicate has the colour
\* labels (set_mark_name) of the stored File its output path points to.
C27_DuplicateKeepsLegend ==
    \A f \in Discarded :
        \E g \in PoolFiles :
            /\ fobj[g].outputpath = fobj[f].outputpath
            /\ Range(fobj[g].colorname) = Range(fobj[f].colorname)

\* The list of lines the last call of mark was given.
LineList == IF isinstance_int(ret.args.lines)
            THEN <<ret.args.lines.int>> ELSE ret.args.lines.list

\* The last call is a mark that raised.
MarkFailed == ret.op = "mark" /\ ret.status = "ValueError"

\* C28 as claimed: a mark call that fails leaves the colour of every line as
\* it was before the call.
C28_MarkAllOrNothing ==
    MarkFailed => Colors_of(fobj[ret.self]) = ret.value

\* C28 as amended: a mark call that fails for its colour category changes no
\* colour; one that fails for a line number has given the lines listed
\* before the first invalid number the new colour and changed no other line.
C28_MarkFailureKeepsPrefix ==
    MarkFailed =>
        LET now == Colors_of(fobj[ret.self])
            invalid == {k \in DOMAIN LineList : LineList[k] \notin DOMAIN now}
            prefix == IF ret.args.marking \notin Colors THEN {}
                      ELSE {LineList[k] : k \in 1..(SetMin(invalid) - 1)}
        IN  now = [n \in DOMAIN now |->
                    IF n \in prefix THEN ret.args.marking ELSE ret.value[n]]

\* A mark call failed after it coloured a line.
C28_Witness ==
    MarkFailed /\ Colors_of(fobj[ret.self]) # ret.value

\* A scan of SecurityCheck left no output file, as the files that a build
\* with keep leaves behind show.
ScanDidNotRun ==
    /\ mgr.keep
    /\ \/ mgr.out.security.banditfile = ToolAbsent
       \/ \E i \in DOMAIN mgr.out.security.safetyfiles :
            mgr.out.security.safetyfiles[i].file = ToolAbsent

\* Manager.build has just computed its badges, or failed to.
BadgesComputed ==
    ret.op = "Manager.build" /\ mgr.pc \in {"build", "raised"}

\* C29: in Manager.build the "vulnerabilities" badge is computed without an
\* exception for every outcome of the scans, and when a scan did not run
\* the badge shows "Unknown" in the alert colour.
C29_VulnerabilitiesBadge ==
    BadgesComputed =>
        /\ ret.status = "ok"
        /\ ScanDidNotRun =>
                /\ ret.value[3][2] = <<"Unknown">>
                /\ ret.value[3][3] = "red"

\* C30: DocInspector.get_coverage returns floor(100 * documented /
\* (documented + undocumented)), a whole number in 0..100, in every state of
\* the inspector, also with nothing documented and nothing logged, so that
\* DocInspector.report does not fail on it.
C30_CoverageIsFloorPercentage ==
    ret.op = "DocInspector.report" =>
        LET numdoc == ret.args.documented
            numundoc == Len(ret.args.log)
            coverage == summary_dict("Documentation").value
        IN  /\ ret.status # "ZeroDivisionError"
            /\ ret.status = "ok" =>
                /\ coverage \in 0..100
                /\ numdoc + numundoc > 0 =>
                    /\ coverage * (numdoc + numundoc) <= 100 * numdoc
                    /\ 100 * numdoc < (coverage + 1) * (numdoc + numundoc)

====
